---- MODULE Spec2Model ----
(***************************************************************************)
(* Model of the SAMPLER CNA looper core:                                   *)
(*   - LooperStateMachine   (sampler_state_machine.h, src/unnamed/part_000)*)
(*   - OverdubLooper        (src/sampler_engine.h)                         *)
(* Each public method is one action.  Pure/const methods are operators.    *)
(***************************************************************************)
EXTENDS Integers, Naturals, Sequences, FiniteSets, TLC

(***************************************************************************)
(* Part 1.  LooperStateMachine                                             *)
(***************************************************************************)

\* enum class LooperState
LooperState == {"IDLE", "RECORDING_INITIAL", "PLAYING", "OVERDUBBING", "PAUSED"}

\* enum class LooperEvent
LooperEvent == {"PRESS_REC", "RELEASE_REC", "PRESS_PLAY", "PRESS_STOP",
                "PRESS_PAUSE", "LOOP_ENDED", "CLEAR_LOOP"}

VARIABLES
  current_state,    \* LooperStateMachine::_current_state
  previous_state,   \* LooperStateMachine::_previous_state
  smCall            \* observation of the last call on the machine:
                    \*   op, its arguments, the state before it, its return
                    \*   value and the OnExit/OnEnter invocations it made

smVars == <<current_state, previous_state, smCall>>

\* A mutation of CanTransition: the "always to IDLE" shortcut is lost and the
\* PLAYING row forgets PAUSED.
CanTransitionNoIdleShortcut(from, to) ==
  CASE from = "IDLE"              -> to = "RECORDING_INITIAL"
    [] from = "RECORDING_INITIAL" -> to = "PLAYING" \/ to = "IDLE"
    [] from = "PLAYING"           -> to = "OVERDUBBING" \/ to = "IDLE"
    [] from = "OVERDUBBING"       -> to = "PLAYING" \/ to = "IDLE"
    [] from = "PAUSED"            -> to = "PLAYING" \/ to = "IDLE"
    [] OTHER                      -> FALSE

\* bool CanTransition(LooperState from, LooperState to) const
CanTransition(from, to) ==
  IF to = "IDLE" THEN TRUE
  ELSE CASE from = "IDLE"              -> to = "RECORDING_INITIAL"
         [] from = "RECORDING_INITIAL" -> to = "PLAYING" \/ to = "IDLE"
         [] from = "PLAYING"           -> to = "OVERDUBBING" \/ to = "PAUSED"
                                          \/ to = "IDLE"
         [] from = "OVERDUBBING"       -> to = "PLAYING" \/ to = "IDLE"
         [] from = "PAUSED"            -> to = "PLAYING" \/ to = "IDLE"
         [] OTHER                      -> FALSE

\* A mutation of GetNextState: PAUSED ignores PRESS_PLAY and LOOP_ENDED stops
\* a playing loop.
GetNextStateMutant(current, event) ==
  CASE current = "IDLE" ->
         IF event = "PRESS_REC" THEN "RECORDING_INITIAL" ELSE current
    [] current = "RECORDING_INITIAL" ->
         IF event = "RELEASE_REC" THEN "PLAYING"
         ELSE IF event = "PRESS_STOP" THEN "IDLE" ELSE current
    [] current = "PLAYING" ->
         IF event = "PRESS_REC" THEN "OVERDUBBING"
         ELSE IF event = "PRESS_PAUSE" THEN "PAUSED"
         ELSE IF event \in {"PRESS_STOP", "CLEAR_LOOP", "LOOP_ENDED"} THEN "IDLE"
         ELSE current
    [] current = "OVERDUBBING" ->
         IF event = "RELEASE_REC" THEN "PLAYING"
         ELSE IF event = "PRESS_STOP" THEN "IDLE" ELSE current
    [] current = "PAUSED" ->
         IF event = "PRESS_PAUSE" THEN "PLAYING"
         ELSE IF event = "PRESS_STOP" \/ event = "CLEAR_LOOP" THEN "IDLE"
         ELSE current
    [] OTHER -> current

\* LooperState GetNextState(LooperState current, LooperEvent event) const
GetNextState(current, event) ==
  CASE current = "IDLE" ->
         IF event = "PRESS_REC" THEN "RECORDING_INITIAL" ELSE current
    [] current = "RECORDING_INITIAL" ->
         IF event = "RELEASE_REC" THEN "PLAYING"
         ELSE IF event = "PRESS_STOP" THEN "IDLE" ELSE current
    [] current = "PLAYING" ->
         IF event = "PRESS_REC" THEN "OVERDUBBING"
         ELSE IF event = "PRESS_PAUSE" THEN "PAUSED"
         ELSE IF event = "PRESS_STOP" \/ event = "CLEAR_LOOP" THEN "IDLE"
         ELSE current
    [] current = "OVERDUBBING" ->
         IF event = "RELEASE_REC" THEN "PLAYING"
         ELSE IF event = "PRESS_STOP" THEN "IDLE" ELSE current
    [] current = "PAUSED" ->
         IF event = "PRESS_PLAY" \/ event = "PRESS_PAUSE" THEN "PLAYING"
         ELSE IF event = "PRESS_STOP" \/ event = "CLEAR_LOOP" THEN "IDLE"
         ELSE current
    [] OTHER -> current

\* One callback invocation, with the values _current_state and
\* _previous_state have while it runs.
Callback(name, arg, cur, prev) ==
  [cb |-> name, arg |-> arg, cur |-> cur, prev |-> prev]

\* A mutation of TransitionTo: the states are updated before OnExit runs.
CallbacksAfterUpdate(cur, prev, new_state) ==
  <<Callback("OnExit", cur, new_state, cur),
    Callback("OnEnter", new_state, new_state, cur)>>

\* The callbacks an accepted TransitionTo invokes, in order: OnExit before
\* the two assignments, OnEnter after them.
Callbacks(cur, prev, new_state) ==
  <<Callback("OnExit", cur, cur, prev),
    Callback("OnEnter", new_state, new_state, cur)>>

\* A mutation of TransitionTo: the CanTransition guard is skipped.
TransitionToUnguarded(cur, prev, new_state) ==
  [ret   |-> TRUE,
   cur   |-> new_state,
   prev  |-> cur,
   calls |-> Callbacks(cur, prev, new_state)]

\* bool TransitionTo(LooperState new_state), as a function of the fields:
\* the return value, the new fields and the callbacks invoked, in order.
TransitionToResult(cur, prev, new_state) ==
  IF ~CanTransition(cur, new_state)
  THEN [ret |-> FALSE, cur |-> cur, prev |-> prev, calls |-> <<>>]
  ELSE [ret   |-> TRUE,
        cur   |-> new_state,
        prev  |-> cur,
        calls |-> Callbacks(cur, prev, new_state)]

\* A mutation of ProcessEvent: PRESS_PLAY in PAUSED resumes the state held
\* before the pause.
ProcessEventResuming(cur, prev, event) ==
  LET new_state == IF cur = "PAUSED" /\ event = "PRESS_PLAY" THEN prev
                   ELSE GetNextState(cur, event)
  IN  IF new_state = cur
      THEN [ret |-> FALSE, cur |-> cur, prev |-> prev, calls |-> <<>>]
      ELSE TransitionToResult(cur, prev, new_state)

\* bool ProcessEvent(LooperEvent event), as a function of the fields.
ProcessEventResult(cur, prev, event) ==
  LET new_state == GetNextState(cur, event)
  IN  IF new_state = cur
      THEN [ret |-> FALSE, cur |-> cur, prev |-> prev, calls |-> <<>>]
      ELSE TransitionToResult(cur, prev, new_state)

SmCallRecord(op, arg, arg2, r) ==
  [op |-> op, arg |-> arg, arg2 |-> arg2,
   from |-> current_state, fromPrev |-> previous_state,
   ret |-> r.ret, calls |-> r.calls]

\* LooperStateMachine() : _current_state(IDLE), _previous_state(IDLE)
InitSM ==
  /\ current_state = "IDLE"
  /\ previous_state = "IDLE"
  /\ smCall = [op |-> "ctor", arg |-> "-", arg2 |-> "-",
               from |-> "IDLE", fromPrev |-> "IDLE",
               ret |-> FALSE, calls |-> <<>>]

ProcessEvent(event) ==
  LET r == ProcessEventResult(current_state, previous_state, event)
  IN  /\ current_state' = r.cur
      /\ previous_state' = r.prev
      /\ smCall' = SmCallRecord("ProcessEvent", event, "-", r)

TransitionTo(new_state) ==
  LET r == TransitionToResult(current_state, previous_state, new_state)
  IN  /\ current_state' = r.cur
      /\ previous_state' = r.prev
      /\ smCall' = SmCallRecord("TransitionTo", new_state, "-", r)

\* A call of the const method CanTransition(from, to) by a client.
CanTransitionCall(from, to) ==
  /\ UNCHANGED <<current_state, previous_state>>
  /\ smCall' = SmCallRecord("CanTransition", from, to,
                            [ret |-> CanTransition(from, to), calls |-> <<>>])

\* void Reset() { TransitionTo(IDLE); }
Reset ==
  LET r == TransitionToResult(current_state, previous_state, "IDLE")
  IN  /\ current_state' = r.cur
      /\ previous_state' = r.prev
      /\ smCall' = SmCallRecord("Reset", "-", "-", r)

(***************************************************************************)
(* Part 2.  OverdubLooper                                                  *)
(*                                                                         *)
(* Samples are floats in the code.  Here a sample is an integer number of  *)
(* quantisation steps of 0.5, so that sums are exact and SoftClip is a     *)
(* table.  The playhead and the playback speed are floats too; here they   *)
(* are fixed-point numbers counted in 1/PHScale samples.  Process returns  *)
(* its output as a numerator over PHScale (interpolation halves samples).  *)
(***************************************************************************)

\* Capacity of the sample buffer handed to Init (the `length` argument).
BufLen == 2

\* Largest input sample fed to Process and largest power-on value of an
\* undo-buffer cell.
MaxIn == 1

\* Length of the first take the undo-history runs start from.
TakeLen == 1

\* Largest num_undo_levels argument tried for Init.
MaxLevelsArg == 4

\* Cap on the playhead (in 1/PHScale samples) for the runs in which the
\* code lets it grow without bound.
MaxPlayHead == 8

\* Number of engine calls followed in the bounded-history runs.
MaxCalls == 7

\* Largest playback speed tried, in 1/PHScale (4 is twice the normal speed).
MaxSpeed == 4

\* Largest sample rate (samples per second) given to SetTempo.
MaxRate == 2

\* Largest beat count given to SetQuantize.
MaxBeats == 2

\* Sample positions given to QuantizeLoopRegion lie within MaxPos of either
\* end of the size_t range.
MaxPos == 5

\* Largest time-signature numerator given to SetTimeSignature.
MaxNum == 2

\* Tick() is followed for at most MaxTicks samples after a Reset().
MaxTicks == 6

\* static const size_t MAX_UNDO_LEVELS = 3;
MAX_UNDO_LEVELS == 3

\* static const size_t CROSSFADE_SAMPLES = 128;
CROSSFADE_SAMPLES == 128

\* Fixed-point scale of _play_head and _playback_speed.
PHScale == 2

\* size_t arithmetic wraps.  The target's size_t is 32 bits wide; the model
\* checker's integers are 32-bit signed, so the modulus used here is 2^30:
\* a wrapped difference is then, as on the target, far above any capacity.
SizeMod == 2^30

Index == 0 .. (BufLen - 1)
InSample == 0 .. MaxIn

VARIABLES
  eng,        \* the fields of the OverdubLooper object
  halted,     \* TRUE once a division by zero has trapped or a memcpy has
              \* left the arrays: the run is not followed any further
  engCall,    \* observation of the last call on the engine
  take,       \* the recording take in progress, as the caller sees it
  lin,        \* the undo history as a linear history would keep it
  od,         \* the overdub pass in progress, as the caller sees it
  run,        \* the snapshots of the current run of consecutive saves
  calls,      \* number of engine calls made so far (bounded-history runs)
  before,     \* the fields of the engine when the last call was made
  ctl,        \* where the control context stands inside SetLoopRegion
  qz,         \* the quantisation fields of the OverdubLooper object
  qzCall,     \* observation of the last call on the quantiser
  clk,        \* the fields of the ClockSync object
  clkCall,    \* observation of the last call on the clock
  tk,         \* Tick() calls since the last Reset() of the clock, -1 once
              \* the configuration has changed since that Reset()
  app,        \* the looper variables of the application (SAMPLER_CNA.ino)
              \* and the place loop() has reached inside a REC handler
  appCall,    \* observation of the last step of the application
  appObs      \* what the application's run has done so far (see AppObsInit)

clkVars == <<clk, clkCall, tk>>
appVars == <<app, appCall, appObs>>
auxVars == <<od, run, calls, before, ctl, qz, qzCall, clkVars, appVars>>
engVars == <<eng, halted, engCall, take, lin, auxVars>>
vars == <<smVars, engVars>>

Min(a, b) == IF a < b THEN a ELSE b

\* x with sign
Abs(x) == IF x < 0 THEN -x ELSE x

\* float SoftClip(float x) { return tanhf(x * 0.7f) / 0.7f; }
\* on samples counted in steps of 0.5: round(tanh(0.35 k) / 0.35)
SoftClip(x) ==
  LET a == Abs(x)
      c == CASE a = 0 -> 0
             [] a = 1 -> 1
             [] a = 2 -> 2
             [] a = 3 -> 2
             [] OTHER -> 3
  IN  IF x < 0 THEN -c ELSE c

\* The region content [_buffer + _loop_start, + _loop_length) as a sequence.
Region(e) == [i \in 1 .. e.loop_length |-> e.buffer[e.loop_start + i - 1]]

\* memcpy(dst, _buffer + _loop_start, sizeof(float) * _loop_length)
CopyOut(e, dst) ==
  [i \in Index |-> IF i < e.loop_length THEN e.buffer[e.loop_start + i]
                   ELSE dst[i]]

\* memcpy(_buffer + _loop_start, src, sizeof(float) * _loop_length)
CopyIn(e, src) ==
  [i \in Index |-> IF i >= e.loop_start /\ i < e.loop_start + e.loop_length
                   THEN src[i - e.loop_start]
                   ELSE e.buffer[i]]

\* void Init(float *buf, size_t length, float** undo_bufs, size_t num_undo_levels)
\* on the statically allocated (zero-initialised) object; `bufs` is the
\* power-on content of the caller's undo buffers, which Init does not clear.
EngineInit(num_undo_levels, bufs) ==
  [buffer           |-> [i \in Index |-> 0],
   loop_start       |-> 0,
   loop_length      |-> 0,
   play_head        |-> 0,
   rec_head         |-> 0,
   is_empty         |-> TRUE,
   is_recording     |-> FALSE,
   reverse          |-> FALSE,
   overdubbing      |-> FALSE,
   playback_speed   |-> PHScale,
   undo_enabled     |-> num_undo_levels > 0,
   undo_count       |-> IF num_undo_levels > 0
                        THEN (IF num_undo_levels <= MAX_UNDO_LEVELS
                              THEN num_undo_levels ELSE MAX_UNDO_LEVELS)
                        ELSE 0,
   undo_buffers     |-> bufs,
   undo_write_index |-> 0,
   undo_read_index  |-> 0,
   undo_depth       |-> 0,
   redo_depth       |-> 0]

\* void Init(float *buf, size_t length, float** undo_bufs, size_t num_undo_levels)
\* on an object that has been in use, with the buffers it was first given:
\* the fields Init does not assign keep their values, and so does the
\* content of the undo buffers.
InitOp(e, num_undo_levels) ==
  [e EXCEPT
     !.undo_enabled   = num_undo_levels > 0,
     !.undo_count     = IF num_undo_levels > 0
                        THEN (IF num_undo_levels <= MAX_UNDO_LEVELS
                              THEN num_undo_levels ELSE MAX_UNDO_LEVELS)
                        ELSE 0,
     !.buffer         = [i \in Index |-> 0],
     !.is_empty       = TRUE,
     !.reverse        = FALSE,
     !.playback_speed = PHScale]

\* _buffer_length: the number of cells of the buffer given to Init().
Capacity(buf) == Cardinality(DOMAIN buf)

\* The body of the loop of ApplyCrossfade(), for one value of i.
CrossfadeStep(buf, e, i) ==
  LET start_idx == (e.loop_start + i) % Capacity(buf)
      end_idx   == (e.loop_start + e.loop_length - CROSSFADE_SAMPLES + i)
                   % Capacity(buf)
      blended   == (buf[start_idx] * i
                    + buf[end_idx] * (CROSSFADE_SAMPLES - i))
                   \div CROSSFADE_SAMPLES
  IN  [buf EXCEPT ![start_idx] = blended]

\* The iterations lo <= i < hi of the loop of ApplyCrossfade(), in order.
\* The range is halved, and the first half is evaluated (its capacity, which
\* never differs, is looked at) before the second half starts, so that the
\* evaluation does not nest once per iteration.
RECURSIVE CrossfadeFrom(_, _, _, _)
CrossfadeFrom(buf, e, lo, hi) ==
  IF hi <= lo THEN buf
  ELSE IF hi = lo + 1 THEN CrossfadeStep(buf, e, lo)
  ELSE LET mid   == (lo + hi) \div 2
           first == CrossfadeFrom(buf, e, lo, mid)
       IN  IF Capacity(first) = Capacity(buf)
           THEN CrossfadeFrom(first, e, mid, hi)
           ELSE buf

\* A mutation of ApplyCrossfade: the loop length is not looked at.
ApplyCrossfadeAlways(e) ==
  [e EXCEPT !.buffer = CrossfadeFrom(e.buffer, e, 0, CROSSFADE_SAMPLES)]

\* void ApplyCrossfade()
ApplyCrossfade(e) ==
  IF e.loop_length < CROSSFADE_SAMPLES * 2 THEN e
  ELSE [e EXCEPT !.buffer = CrossfadeFrom(e.buffer, e, 0, CROSSFADE_SAMPLES)]

\* void StartRecording()
StartRecordingOp(e) ==
  [e EXCEPT !.rec_head = 0, !.play_head = 0, !.is_empty = FALSE,
            !.is_recording = TRUE, !.overdubbing = FALSE]

\* void StopRecording()
StopRecordingOp(e) == ApplyCrossfade([e EXCEPT !.is_recording = FALSE])

\* void SetLoopRegion(size_t start_sample, size_t end_sample)
SetLoopRegionOp(e, start_sample, end_sample) ==
  LET len0 == (end_sample - start_sample + 1) % SizeMod
      len  == IF len0 < 1 THEN 1 ELSE len0
  IN  [e EXCEPT !.loop_start = start_sample,
                !.loop_length = len,
                !.play_head = IF e.play_head >= len * PHScale THEN 0
                              ELSE e.play_head]

\* void SaveUndoState()
SaveUndoStateOp(e) ==
  IF ~e.undo_enabled \/ e.undo_count = 0 THEN e
  ELSE [e EXCEPT
          !.undo_buffers[e.undo_write_index] =
              CopyOut(e, e.undo_buffers[e.undo_write_index]),
          !.undo_write_index = (e.undo_write_index + 1) % e.undo_count,
          !.undo_read_index = (e.undo_write_index + 1) % e.undo_count,
          !.undo_depth = IF e.undo_depth < e.undo_count
                         THEN e.undo_depth + 1 ELSE e.undo_depth]

\* A mutation of Undo: the depth is not looked at.
UndoIgnoringDepth(e) ==
  IF ~e.undo_enabled THEN [eng |-> e, ret |-> FALSE]
  ELSE LET r == (e.undo_read_index - 1 + e.undo_count) % e.undo_count
       IN  [eng |-> [e EXCEPT
                       !.undo_read_index = r,
                       !.buffer = CopyIn(e, e.undo_buffers[r]),
                       !.undo_depth = e.undo_depth - 1,
                       !.redo_depth = IF e.redo_depth < MAX_UNDO_LEVELS - 1
                                      THEN e.redo_depth + 1
                                      ELSE e.redo_depth],
            ret |-> TRUE]

\* bool Undo()
UndoOp(e) ==
  IF ~e.undo_enabled \/ e.undo_depth = 0 THEN [eng |-> e, ret |-> FALSE]
  ELSE LET r == (e.undo_read_index - 1 + e.undo_count) % e.undo_count
       IN  [eng |-> [e EXCEPT
                       !.undo_read_index = r,
                       !.buffer = CopyIn(e, e.undo_buffers[r]),
                       !.undo_depth = e.undo_depth - 1,
                       !.redo_depth = IF e.redo_depth < MAX_UNDO_LEVELS - 1
                                      THEN e.redo_depth + 1
                                      ELSE e.redo_depth],
            ret |-> TRUE]

\* bool Redo()
RedoOp(e) ==
  IF ~e.undo_enabled \/ e.redo_depth = 0 THEN [eng |-> e, ret |-> FALSE]
  ELSE LET r == (e.undo_read_index + 1) % e.undo_count
       IN  [eng |-> [e EXCEPT
                       !.undo_read_index = r,
                       !.buffer = CopyIn(e, e.undo_buffers[r]),
                       !.undo_depth = e.undo_depth + 1,
                       !.redo_depth = e.redo_depth - 1],
            ret |-> TRUE]

\* bool CanUndo() const
CanUndo(e) == e.undo_enabled /\ e.undo_depth > 0

\* bool CanRedo() const
CanRedo(e) == e.undo_enabled /\ e.redo_depth > 0

\* A mutation of StartOverdub: no snapshot is taken.
StartOverdubNoSave(e) == [e EXCEPT !.overdubbing = TRUE]

\* void StartOverdub()
StartOverdubOp(e) == [SaveUndoStateOp(e) EXCEPT !.overdubbing = TRUE]

\* void StopOverdub()
StopOverdubOp(e) == [e EXCEPT !.overdubbing = FALSE]

\* void Restart()
RestartOp(e) == [e EXCEPT !.play_head = 0]

\* void SetReverse(bool reverse)
SetReverseOp(e, reverse) == [e EXCEPT !.reverse = reverse]

\* void SetPlaybackSpeed(float speed), speed in 1/PHScale
SetPlaybackSpeedOp(e, speed) == [e EXCEPT !.playback_speed = speed]

\* The quantisation members as their initialisers leave them:
\* _quantize = false, _quantize_beats = 4, _bpm = 120.0f,
\* _samples_per_beat = 0.
QuantizeInit ==
  [quantize |-> FALSE, quantize_beats |-> 4, bpm |-> 120,
   samples_per_beat |-> 0]

\* void SetTempo(float bpm, float sample_rate); the cast to size_t truncates.
SetTempoOp(q, bpm, sample_rate) ==
  IF bpm <= 0 \/ sample_rate <= 0 THEN q
  ELSE [q EXCEPT !.bpm = bpm,
                 !.samples_per_beat = ((sample_rate * 60) \div bpm) % SizeMod]

\* void SetQuantize(bool enable, size_t beats = 4)
SetQuantizeOp(q, enable, beats) ==
  [q EXCEPT !.quantize = enable,
            !.quantize_beats = IF beats > 0 THEN beats ELSE 4]

\* A mutation of QuantizeLoopRegion: the _quantize flag is not looked at.
QuantizeLoopRegionAlways(q, start_sample, end_sample) ==
  IF q.samples_per_beat = 0
  THEN [out_start |-> start_sample, out_end |-> end_sample]
  ELSE LET spb == q.samples_per_beat
           start_beat == ((start_sample + spb \div 2) % SizeMod) \div spb
           out_start == (start_beat * spb) % SizeMod
           recorded_length == IF end_sample > start_sample
                              THEN end_sample - start_sample ELSE 0
           beats0 == ((recorded_length + spb \div 2) % SizeMod) \div spb
           length_in_beats ==
             IF beats0 < q.quantize_beats THEN q.quantize_beats
             ELSE ((((beats0 + q.quantize_beats \div 2) % SizeMod)
                    \div q.quantize_beats) * q.quantize_beats) % SizeMod
       IN  [out_start |-> out_start,
            out_end   |-> (out_start + ((length_in_beats * spb) % SizeMod))
                          % SizeMod]

\* void QuantizeLoopRegion(size_t start_sample, size_t end_sample,
\*                         size_t& out_start, size_t& out_end)
\* in size_t arithmetic.
QuantizeLoopRegionOp(q, start_sample, end_sample) ==
  IF ~q.quantize \/ q.samples_per_beat = 0
  THEN [out_start |-> start_sample, out_end |-> end_sample]
  ELSE LET spb == q.samples_per_beat
           start_beat == ((start_sample + spb \div 2) % SizeMod) \div spb
           out_start == (start_beat * spb) % SizeMod
           recorded_length == IF end_sample > start_sample
                              THEN end_sample - start_sample ELSE 0
           beats0 == ((recorded_length + spb \div 2) % SizeMod) \div spb
           length_in_beats ==
             IF beats0 < q.quantize_beats THEN q.quantize_beats
             ELSE ((((beats0 + q.quantize_beats \div 2) % SizeMod)
                    \div q.quantize_beats) * q.quantize_beats) % SizeMod
       IN  [out_start |-> out_start,
            out_end   |-> (out_start + ((length_in_beats * spb) % SizeMod))
                          % SizeMod]

\* The outcomes of the two undefined operations Process can reach:
\*   x % _loop_length with _loop_length == 0 (GetInterpolatedSample), which
\*     either traps or yields some index, and
\*   static_cast<size_t>(position) of a float at or below -1.0, which yields
\*     some index (above -1.0 the cast truncates to 0).
\* When neither is reached there is a single (unused) choice.
UBChoices(e) ==
  IF e.is_recording \/ e.is_empty THEN {[trap |-> FALSE, idx0 |-> 0, idx1 |-> 0]}
  ELSE [trap : IF e.loop_length = 0 THEN BOOLEAN ELSE {FALSE},
        idx0 : IF e.play_head <= -PHScale THEN Index ELSE {0},
        idx1 : IF e.loop_length = 0 THEN Index ELSE {0}]

\* static_cast<size_t>(position)
Trunc(position, ub) ==
  IF position <= -PHScale THEN ub.idx0
  ELSE IF position < 0 THEN 0
  ELSE position \div PHScale

\* float GetInterpolatedSample(float position), as a numerator over PHScale
GetInterpolatedSample(e, position, ub) ==
  LET idx0 == Trunc(position, ub)
      idx1 == IF e.loop_length = 0 THEN ub.idx1
              ELSE (idx0 + 1) % e.loop_length
      frac == position - idx0 * PHScale
      actual_idx0 == (e.loop_start + idx0) % BufLen
      actual_idx1 == (e.loop_start + idx1) % BufLen
  IN  e.buffer[actual_idx0] * (PHScale - frac) + e.buffer[actual_idx1] * frac

\* A mutation of the advance: reverse playback wraps at 0 as if the loop
\* were one sample longer.
AdvanceReverseOffByOne(e) ==
  IF e.reverse
  THEN LET p == e.play_head - e.playback_speed
       IN  IF p < 0 THEN p + (e.loop_length + 1) * PHScale ELSE p
  ELSE LET p == e.play_head + e.playback_speed
       IN  IF p >= e.loop_length * PHScale THEN p - e.loop_length * PHScale
           ELSE p

\* The playhead after the advance at the end of Process.
Advance(e) ==
  IF e.reverse
  THEN LET p == e.play_head - e.playback_speed
       IN  IF p < 0 THEN p + e.loop_length * PHScale ELSE p
  ELSE LET p == e.play_head + e.playback_speed
       IN  IF p >= e.loop_length * PHScale THEN p - e.loop_length * PHScale
           ELSE p

\* A mutation of the recording branch: the record head is allowed to reach
\* the capacity before recording stops (> instead of >=).
ProcessRecordLateStop(e, in) ==
  LET h == e.rec_head + 1
  IN  [eng  |-> [e EXCEPT !.buffer = [i \in Index |->
                             IF i = e.rec_head THEN in ELSE e.buffer[i]],
                          !.rec_head = IF h > BufLen THEN 0 ELSE h,
                          !.is_recording = ~(h > BufLen)],
       ret  |-> in * PHScale,
       widx |-> e.rec_head,
       trap |-> FALSE]

\* The recording branch of Process (if (_is_recording) { ... return in; }).
ProcessRecord(e, in) ==
  LET h == e.rec_head + 1
  IN  [eng  |-> [e EXCEPT !.buffer = [i \in Index |->
                             IF i = e.rec_head THEN in ELSE e.buffer[i]],
                          !.rec_head = IF h >= BufLen THEN 0 ELSE h,
                          !.is_recording = ~(h >= BufLen)],
       ret  |-> in * PHScale,
       widx |-> e.rec_head,
       trap |-> FALSE]

\* A mutation of Process: the playhead advances forward without wrapping.
ProcessNoWrap(e, in, ub) ==
  IF e.is_recording THEN ProcessRecord(e, in)
  ELSE IF e.is_empty
  THEN [eng |-> e, ret |-> 0, widx |-> -1, trap |-> FALSE]
  ELSE IF ub.trap
  THEN [eng |-> e, ret |-> 0, widx |-> -1, trap |-> TRUE]
  ELSE LET out   == GetInterpolatedSample(e, e.play_head, ub)
           index == (e.loop_start + Trunc(e.play_head, ub)) % BufLen
           mixed == SoftClip(e.buffer[index] + in)
           e1    == IF e.overdubbing
                    THEN [e EXCEPT !.buffer[index] = mixed]
                    ELSE e
       IN  [eng  |-> [e1 EXCEPT !.play_head = e.play_head + e.playback_speed],
            ret  |-> IF e.overdubbing THEN mixed * PHScale ELSE out,
            widx |-> IF e.overdubbing THEN index ELSE -1,
            trap |-> FALSE]

\* float Process(float in): the new fields, the value returned (numerator
\* over PHScale), the buffer index written (-1 when none) and whether the
\* call trapped.
ProcessOp(e, in, ub) ==
  IF e.is_recording THEN ProcessRecord(e, in)
  ELSE IF e.is_empty
  THEN [eng |-> e, ret |-> 0, widx |-> -1, trap |-> FALSE]
  ELSE IF ub.trap
  THEN [eng |-> e, ret |-> 0, widx |-> -1, trap |-> TRUE]
  ELSE LET out   == GetInterpolatedSample(e, e.play_head, ub)
           index == (e.loop_start + Trunc(e.play_head, ub)) % BufLen
           mixed == SoftClip(e.buffer[index] + in)
           e1    == IF e.overdubbing
                    THEN [e EXCEPT !.buffer[index] = mixed]
                    ELSE e
       IN  [eng  |-> [e1 EXCEPT !.play_head = Advance(e)],
            ret  |-> IF e.overdubbing THEN mixed * PHScale ELSE out,
            widx |-> IF e.overdubbing THEN index ELSE -1,
            trap |-> FALSE]

(***************************************************************************)
(* Observations kept beside the engine                                     *)
(***************************************************************************)

\* What the last call was and what it returned.  `widx` is the buffer index
\* Process wrote, or the first index outside the buffer that the memcpy of a
\* history call touched (-1 when there is none).  `ideal` is, for Undo, the
\* snapshot a linear history would restore.
EngCall(op, ok, out, widx, ideal) ==
  [op |-> op, ok |-> ok, out |-> out, widx |-> widx, ideal |-> ideal]

NoIdeal == [known |-> FALSE, content |-> <<>>]

TakeNone == [phase |-> "none", ins |-> <<>>, outs |-> <<>>]

\* The history as a linear undo history would keep it:
\*   stack      the snapshots it holds, oldest first (followed while ok),
\*   ok         FALSE once a Redo has succeeded,
\*   saves      number of saves so far (counted up to MAX_UNDO_LEVELS + 1),
\*   afterSave  TRUE from a save until the next successful Undo,
\*   pure       TRUE while SaveUndoState and Undo are the only calls made.
LinInit ==
  [ok |-> TRUE, stack |-> <<>>, saves |-> 0, afterSave |-> FALSE,
   pure |-> TRUE]

\* A save of the current region: a push, keeping the undo_count most recent
\* snapshots.
LinPush(l, e) ==
  IF ~e.undo_enabled \/ e.undo_count = 0 THEN l
  ELSE LET s == Append(l.stack, Region(e))
           n == Len(s)
       IN  [l EXCEPT !.stack = IF ~l.ok THEN <<>>
                               ELSE IF n > e.undo_count
                               THEN SubSeq(s, n - e.undo_count + 1, n)
                               ELSE s,
                     !.saves = Min(l.saves + 1, MAX_UNDO_LEVELS + 1),
                     !.afterSave = TRUE]

LinPop(l, succeeded) ==
  [l EXCEPT !.stack = IF l.stack # <<>>
                      THEN SubSeq(l.stack, 1, Len(l.stack) - 1)
                      ELSE <<>>,
            !.afterSave = IF succeeded THEN FALSE ELSE l.afterSave]

LinTop(l, e) ==
  IF l.ok /\ l.stack # <<>> /\ l.saves <= e.undo_count
  THEN [known |-> TRUE, content |-> l.stack[Len(l.stack)]]
  ELSE NoIdeal

\* How the caller's view of a recording take changes with a call:
\* StartRecording opens it, Process calls feed it, StopRecording closes it,
\* Process(0) calls then play it back; any other call abandons it.
TakeAfter(op, in) ==
  IF op = "StartRecording" THEN [phase |-> "rec", ins |-> <<>>, outs |-> <<>>]
  ELSE IF op = "StopRecording" /\ take.phase = "rec"
  THEN [take EXCEPT !.phase = "stopped"]
  ELSE IF op = "Process" /\ ~halted' /\ take.phase = "rec"
  THEN [take EXCEPT !.ins = IF Len(take.ins) <= BufLen
                            THEN Append(take.ins, in) ELSE take.ins]
  ELSE IF op = "Process" /\ ~halted' /\ take.phase = "stopped" /\ in = 0
          /\ Len(take.outs) < Len(take.ins)
  THEN [take EXCEPT !.outs = Append(take.outs, engCall'.out)]
  ELSE TakeNone

\* An overdub pass as its caller sees it: StartOverdub opens it (content is
\* the loop region at that moment), Process calls feed it (fed once one of
\* them has changed the buffer), StopOverdub closes it, an Undo straight
\* after that ends it; any other call abandons it.
OdNone == [phase |-> "none", content |-> <<>>, fed |-> FALSE]

OdAfter(op) ==
  IF op = "StartOverdub"
  THEN [phase |-> "overdub", content |-> Region(eng), fed |-> FALSE]
  ELSE IF op = "Process" /\ od.phase = "overdub"
  THEN [od EXCEPT !.fed = od.fed \/ eng'.buffer # eng.buffer]
  ELSE IF op = "StopOverdub" /\ od.phase = "overdub"
  THEN [od EXCEPT !.phase = "stopped"]
  ELSE IF op = "Undo" /\ od.phase = "stopped"
  THEN [od EXCEPT !.phase = "undone"]
  ELSE OdNone

\* The regions saved by the saves made since the last Undo or Redo, oldest
\* first, keeping the undo_count most recent ones.  StartOverdub saves too.
RunAfter(op) ==
  IF op \in {"SaveUndoState", "StartOverdub"} /\ eng.undo_enabled
  THEN LET s == Append(run, Region(eng))
           n == Len(s)
       IN  IF n > eng.undo_count THEN SubSeq(s, n - eng.undo_count + 1, n)
           ELSE s
  ELSE IF op \in {"Undo", "Redo"} THEN <<>>
  ELSE run

\* The control context between two SetLoopRegion calls: `done` is the
\* region <<start, length>> the last completed call set, `next` the region
\* of the call in progress (the same as `done` when none is), `todo` the
\* store of the call in progress that is still to be made.
CtlIdle(e) ==
  [pc |-> "idle", todo |-> "-", done |-> <<e.loop_start, e.loop_length>>,
   next |-> <<e.loop_start, e.loop_length>>]

\* What the last call on the quantiser was, its arguments and its results.
QzCall(op, start_sample, end_sample, out) ==
  [op |-> op, start |-> start_sample, end |-> end_sample,
   out_start |-> out.out_start, out_end |-> out.out_end]

QzNone == QzCall("-", 0, 0, [out_start |-> 0, out_end |-> 0])

\* How the linear history changes with a call.
LinAfter(op) ==
  IF op = "SaveUndoState" THEN LinPush(lin, eng)
  ELSE IF op = "StartOverdub" THEN [LinPush(lin, eng) EXCEPT !.pure = FALSE]
  ELSE IF op = "Undo" THEN LinPop(lin, engCall'.ok)
  ELSE IF op = "Redo" /\ engCall'.ok
  THEN [lin EXCEPT !.ok = FALSE, !.stack = <<>>, !.pure = FALSE]
  ELSE [lin EXCEPT !.pure = FALSE]

(***************************************************************************)
(* ClockSync (sampler_sync.h).  _bpm and _sample_rate are floats holding   *)
(* whole numbers here; size_t fields wrap at SizeMod, uint8_t ones at 256. *)
(***************************************************************************)

\* void CalculateTimings(): the cast to size_t truncates.
CalculateTimings(c) ==
  LET spb == ((c.sample_rate * 60) \div c.bpm) % SizeMod
  IN  [c EXCEPT !.samples_per_beat = spb,
                !.samples_per_bar = (spb * c.time_sig_numerator) % SizeMod]

\* ClockSync(): the member initialisers, then CalculateTimings().
ClockSyncInit ==
  CalculateTimings(
    [bpm |-> 120, time_sig_numerator |-> 4, time_sig_denominator |-> 4,
     sample_rate |-> 48000, samples_per_beat |-> 0, samples_per_bar |-> 0,
     sample_counter |-> 0, beat_counter |-> 0])

\* void SetBPM(float bpm)
SetBPMOp(c, bpm) ==
  IF bpm <= 0 THEN c ELSE CalculateTimings([c EXCEPT !.bpm = bpm])

\* void SetSampleRate(float sample_rate)
SetSampleRateOp(c, sample_rate) ==
  IF sample_rate <= 0 THEN c
  ELSE CalculateTimings([c EXCEPT !.sample_rate = sample_rate])

\* A mutation of SetTimeSignature: the arguments are not looked at.
SetTimeSignatureUnguarded(c, numerator, denominator) ==
  CalculateTimings([c EXCEPT !.time_sig_numerator = numerator,
                             !.time_sig_denominator = denominator])

\* void SetTimeSignature(uint8_t numerator, uint8_t denominator)
SetTimeSignatureOp(c, numerator, denominator) ==
  IF numerator = 0 \/ denominator = 0 THEN c
  ELSE CalculateTimings([c EXCEPT !.time_sig_numerator = numerator,
                                  !.time_sig_denominator = denominator])

\* The test of Tick() after its increment: a new beat has been reached.
TickBeat(c) ==
  /\ c.samples_per_beat > 0
  /\ (c.sample_counter + 1) % SizeMod >= c.samples_per_beat

\* A mutation of Tick(): the beat is reached one sample late.
TickLate(c) ==
  IF c.samples_per_beat > 0
     /\ (c.sample_counter + 1) % SizeMod > c.samples_per_beat
  THEN LET beat == (c.beat_counter + 1) % 256
       IN  [c EXCEPT !.sample_counter = 0,
                     !.beat_counter =
                        IF beat >= c.time_sig_numerator THEN 0 ELSE beat]
  ELSE [c EXCEPT !.sample_counter = (c.sample_counter + 1) % SizeMod]

\* void Tick()
TickOp(c) ==
  IF TickBeat(c)
  THEN LET beat == (c.beat_counter + 1) % 256
       IN  [c EXCEPT !.sample_counter = 0,
                     !.beat_counter =
                        IF beat >= c.time_sig_numerator THEN 0 ELSE beat]
  ELSE [c EXCEPT !.sample_counter = (c.sample_counter + 1) % SizeMod]

\* void Reset() of ClockSync
ClockResetOp(c) == [c EXCEPT !.sample_counter = 0, !.beat_counter = 0]

\* size_t GetBeatAlignedLength(size_t samples), in size_t arithmetic.
GetBeatAlignedLengthOp(c, samples) ==
  IF c.samples_per_beat = 0 THEN samples
  ELSE LET num_beats == ((samples + c.samples_per_beat \div 2) % SizeMod)
                        \div c.samples_per_beat
       IN  (num_beats * c.samples_per_beat) % SizeMod

\* size_t SnapToNearestBeat(size_t sample_position), in size_t arithmetic.
SnapToNearestBeatOp(c, sample_position) ==
  IF c.samples_per_beat = 0 THEN sample_position
  ELSE LET beat_number ==
             ((sample_position + c.samples_per_beat \div 2) % SizeMod)
             \div c.samples_per_beat
       IN  (beat_number * c.samples_per_beat) % SizeMod

\* What the last call on the clock was: its arguments, its result, and for
\* Tick() whether it reached a new beat.
ClkCall(op, arg, arg2, ret, beat) ==
  [op |-> op, arg |-> arg, arg2 |-> arg2, ret |-> ret, beat |-> beat]

ClkNone == ClkCall("-", 0, 0, 0, FALSE)

(***************************************************************************)
(* The application (SAMPLER_CNA.ino)                                       *)
(*                                                                         *)
(* loop() polls the buttons and drives the engine; AudioCallback is the    *)
(* audio interrupt and calls Process once per sample.  The application     *)
(* keeps its own looper_state and does not use LooperStateMachine.         *)
(***************************************************************************)

\* enum LooperState { STOPPED, RECORDING, PLAYING, OVERDUB, PAUSED }
AppState == {"STOPPED", "RECORDING", "PLAYING", "OVERDUB", "PAUSED"}

\* static const size_t kBufferLengthSamples: the length given to looper.Init
kBufferLengthSamples == BufLen

\* loop() is between two statements of a REC handler (h, and k the number of
\* statements done), or outside them.
PcIdle == [h |-> "-", k |-> 0]

\* The globals at their initialisers.
AppInit ==
  [looper_state      |-> "STOPPED",
   record_counter    |-> 0,
   recorded_samples  |-> 0,
   loop_start_sample |-> 0,
   loop_end_sample   |-> 0,
   reverse_mode      |-> FALSE,
   pc                |-> PcIdle]

\* What the last step of the application was: the handler or the callback,
\* the looper_state, recording flag and overdub flag it found, and whether
\* it called Process.
AppCall(op, a, e, processed) ==
  [op |-> op, from |-> a.looper_state, rec |-> e.is_recording,
   dub |-> e.overdubbing, processed |-> processed]

AppNone ==
  [op |-> "-", from |-> "STOPPED", rec |-> FALSE, dub |-> FALSE,
   processed |-> FALSE]

\* What the run has done so far:
\*   held     the playhead and the buffer as they were when the last pause
\*            began,
\*   kept     TRUE from the beginning of a pause until loop() changes the
\*            region, restarts or the resumed playback has moved on,
\*   sampled  TRUE once the audio callback has run during that pause,
\*   written  the samples the engine has written to the buffer in recording
\*            mode since the last StartRecording(),
\*   stored   TRUE from the release of REC that stored recorded_samples to
\*            the next change of recorded_samples,
\*   full     TRUE once the recording since the last StartRecording() has
\*            filled the buffer.
AppObsInit ==
  [held |-> [play_head |-> 0, buffer |-> [i \in Index |-> 0]],
   kept |-> FALSE, sampled |-> FALSE, written |-> 0, stored |-> FALSE,
   full |-> FALSE]

\* The statements of the REC press handler when looper_state is STOPPED, in
\* the order of the source; s is the pair of application and engine.
\*   memset(buffer, 0, ..); looper.StartRecording(); looper_state = RECORDING;
\*   recorded_samples = 0; record_counter = 0;
RecPressLen == 5

RecPressStatement(k, s) ==
  CASE k = 1 -> [s EXCEPT !.eng.buffer = [i \in Index |-> 0]]
    [] k = 2 -> [s EXCEPT !.eng = StartRecordingOp(s.eng)]
    [] k = 3 -> [s EXCEPT !.app.looper_state = "RECORDING"]
    [] k = 4 -> [s EXCEPT !.app.recorded_samples = 0]
    [] k = 5 -> [s EXCEPT !.app.record_counter = 0]

\* The statements of the REC release handler when looper_state is RECORDING.
\*   looper.StopRecording(); recorded_samples = record_counter;
\*   loop_start_sample = 0; loop_end_sample = ..;
\*   looper.SetLoopRegion(loop_start_sample, loop_end_sample);
\*   looper_state = PLAYING;
RecReleaseLen == 5

RecReleaseStatement(k, s) ==
  CASE k = 1 -> [s EXCEPT !.eng = StopRecordingOp(s.eng)]
    [] k = 2 -> [s EXCEPT !.app.recorded_samples = s.app.record_counter]
    [] k = 3 -> [s EXCEPT !.app.loop_start_sample = 0,
                          !.app.loop_end_sample =
                             IF s.app.recorded_samples > 0
                             THEN s.app.recorded_samples - 1 ELSE 0]
    [] k = 4 -> [s EXCEPT !.eng = SetLoopRegionOp(s.eng,
                                                  s.app.loop_start_sample,
                                                  s.app.loop_end_sample)]
    [] k = 5 -> [s EXCEPT !.app.looper_state = "PLAYING"]

Statement(h, k, s) ==
  IF h = "press" THEN RecPressStatement(k, s) ELSE RecReleaseStatement(k, s)

HandlerLen(h) == IF h = "press" THEN RecPressLen ELSE RecReleaseLen

\* The statements k .. HandlerLen(h) of handler h, one after the other.
RECURSIVE StatementsFrom(_, _, _)
StatementsFrom(h, k, s) ==
  IF k > HandlerLen(h) THEN s
  ELSE StatementsFrom(h, k + 1, Statement(h, k, s))

\* if (rec_button_is_pressed && !rec_button_was_pressed) { .. }
RecPressOp(a, e) ==
  IF a.looper_state = "STOPPED"
  THEN StatementsFrom("press", 1, [app |-> a, eng |-> e])
  ELSE IF a.looper_state = "PLAYING"
  THEN [app |-> [a EXCEPT !.looper_state = "OVERDUB"],
        eng |-> StartOverdubOp(e)]
  ELSE [app |-> a, eng |-> e]

\* if (!rec_button_is_pressed && rec_button_was_pressed) { .. }
RecReleaseOp(a, e) ==
  IF a.looper_state = "RECORDING"
  THEN StatementsFrom("release", 1, [app |-> a, eng |-> e])
  ELSE IF a.looper_state = "OVERDUB"
  THEN [app |-> [a EXCEPT !.looper_state = "PLAYING"],
        eng |-> StopOverdubOp(e)]
  ELSE [app |-> a, eng |-> e]

\* if (playPressCount == 2) { .. }: the second press of PLAY within
\* DOUBLE_PRESS_TIME_MS.
PlayDoublePressOp(a, e) ==
  LET e1 == RestartOp(e)
  IN  [app |-> [a EXCEPT !.looper_state = "STOPPED",
                         !.recorded_samples = 0,
                         !.record_counter = 0],
       eng |-> IF a.looper_state = "RECORDING" THEN StopRecordingOp(e1)
               ELSE e1]

\* A mutation of the single press of PLAY: it pauses a recording too.
PlaySinglePressAlsoRecording(a) ==
  IF a.looper_state = "PAUSED" THEN [a EXCEPT !.looper_state = "PLAYING"]
  ELSE IF a.looper_state = "PLAYING" \/ a.looper_state = "RECORDING"
  THEN [a EXCEPT !.looper_state = "PAUSED"]
  ELSE a

\* if (playPressCount == 1 && (millis() - lastPlayPressTime > ..)) { .. }:
\* a single short press of PLAY, once the time for a second press is over.
PlaySinglePressOp(a) ==
  IF a.looper_state = "PAUSED" THEN [a EXCEPT !.looper_state = "PLAYING"]
  ELSE IF a.looper_state = "PLAYING" THEN [a EXCEPT !.looper_state = "PAUSED"]
  ELSE a

\* if (stop_button == LOW && last_stop_button_state == HIGH) { .. }
StopPressOp(a, e) ==
  [app |-> [a EXCEPT !.reverse_mode = ~a.reverse_mode],
   eng |-> SetReverseOp(e, ~a.reverse_mode)]

\* if (reset_press_count == 2) { .. }: the second press of RESET.
ResetDoublePressOp(a, e) ==
  IF a.recorded_samples > 0
  THEN [app |-> [a EXCEPT !.loop_start_sample = 0,
                          !.loop_end_sample = a.recorded_samples - 1],
        eng |-> SetLoopRegionOp(e, 0, a.recorded_samples - 1)]
  ELSE [app |-> a, eng |-> e]

\* A mutation of the callback: Process(0.0f) is called while PAUSED as well.
CallsProcessAlsoPaused(a) ==
  a.looper_state \in {"RECORDING", "OVERDUB", "PLAYING", "PAUSED"}

\* The callback calls Process for this sample.
CallsProcess(a) == a.looper_state \in {"RECORDING", "OVERDUB", "PLAYING"}

\* One sample of AudioCallback, the input sample being in: the looper part
\* of the body of the for loop.
AudioSampleOp(a, e, in, ub) ==
  LET r  == IF CallsProcess(a)
            THEN ProcessOp(e, IF a.looper_state = "PLAYING" THEN 0 ELSE in, ub)
            ELSE [eng |-> e, ret |-> 0, widx |-> -1, trap |-> FALSE]
      c  == a.record_counter + 1
  IN  [app  |-> IF a.looper_state = "RECORDING"
                   /\ a.record_counter < kBufferLengthSamples /\ ~r.trap
                THEN [a EXCEPT !.record_counter =
                                  IF c > kBufferLengthSamples
                                  THEN kBufferLengthSamples ELSE c]
                ELSE a,
       eng  |-> r.eng,
       ret  |-> r.ret,
       widx |-> r.widx,
       trap |-> r.trap]

(***************************************************************************)
(* Initial states                                                          *)
(***************************************************************************)

\* Power-on content of the undo buffers (SDRAM, never cleared by the code):
\* some value in every cell.
PowerOnUndoBuffers ==
  {[k \in 0 .. (MAX_UNDO_LEVELS - 1) |-> [i \in Index |-> g]] : g \in InSample}

NoUndoBuffers == [k \in 0 .. (MAX_UNDO_LEVELS - 1) |-> [i \in Index |-> 0]]

InitObservations ==
  /\ halted = FALSE
  /\ engCall = EngCall("Init", FALSE, 0, -1, NoIdeal)
  /\ take = TakeNone
  /\ lin = LinInit
  /\ od = OdNone
  /\ run = <<>>
  /\ calls = 0
  /\ before = EngineInit(0, NoUndoBuffers)
  /\ ctl = CtlIdle(eng)
  /\ qz = QuantizeInit
  /\ qzCall = QzNone
  /\ clk = ClockSyncInit
  /\ clkCall = ClkNone
  /\ tk = -1
  /\ app = AppInit
  /\ appCall = AppNone
  /\ appObs = AppObsInit

\* looper.Init(buffer, length): no undo buffers.
InitEngineNoUndo ==
  /\ eng = EngineInit(0, NoUndoBuffers)
  /\ InitObservations

\* The engine after the first take, as the application makes it (REC
\* pressed, the samples xs recorded, REC released): StartRecording(),
\* Process(x) for each x of xs, StopRecording(), SetLoopRegion(0, n - 1).
RECURSIVE RecordAll(_, _)
RecordAll(e, xs) ==
  IF xs = <<>> THEN e
  ELSE RecordAll(ProcessRecord(e, Head(xs)).eng, Tail(xs))

FirstTake(e, xs) ==
  SetLoopRegionOp(StopRecordingOp(RecordAll(StartRecordingOp(e), xs)),
                  0, Len(xs) - 1)

Takes == [1 .. TakeLen -> InSample]

\* A take that fills the buffer.
FullTakes == [1 .. BufLen -> InSample]

\* Playback speeds tried, in 1/PHScale.
Speeds == 1 .. MaxSpeed

\* looper.Init(buffer, length), followed by a first take that fills the
\* buffer.
InitEnginePlay ==
  /\ \E xs \in FullTakes : eng = FirstTake(EngineInit(0, NoUndoBuffers), xs)
  /\ InitObservations

\* The capacity of a buffer long enough for the crossfade to run: twice the
\* crossfade window and a few cells more.
LongLen == 2 * CROSSFADE_SAMPLES + 2 * BufLen

\* Takes that fill the long buffer: a run of one sample value, then another
\* to the end, the change falling inside or at the end of the first
\* crossfade window.
LongTakes ==
  {[i \in 0 .. (LongLen - 1) |-> IF i < k THEN a ELSE b] :
     a \in InSample, b \in InSample,
     k \in {CROSSFADE_SAMPLES \div 2, CROSSFADE_SAMPLES + BufLen}}

\* Regions <<start, end>> inside the long buffer whose length is twice the
\* crossfade window or close to it.
LongRegions ==
  {r \in (0 .. BufLen) \X (0 .. (LongLen - 1)) :
     r[2] >= r[1] + 2 * CROSSFADE_SAMPLES - 2}

\* looper.Init(buffer, LongLen), followed by a first take that fills the
\* buffer: StartRecording(), Process(x) for each x of xs (the last one ends
\* the recording and returns the record head to 0), StopRecording(),
\* SetLoopRegion(0, LongLen - 1); and then by a SetLoopRegion(start, end).
InitEngineLong ==
  /\ \E xs \in LongTakes : \E r \in LongRegions :
        eng = SetLoopRegionOp(
                [EngineInit(0, NoUndoBuffers) EXCEPT
                   !.buffer = xs, !.is_empty = FALSE, !.loop_length = LongLen],
                r[1], r[2])
  /\ InitObservations

\* looper.Init(buffer, length, undo_buffers, n) with n >= 1, followed by a
\* first take.
InitEngineUndo ==
  /\ \E n \in 1 .. MaxLevelsArg : \E bufs \in PowerOnUndoBuffers :
        \E xs \in Takes : eng = FirstTake(EngineInit(n, bufs), xs)
  /\ InitObservations

(***************************************************************************)
(* Engine actions: one per public method                                   *)
(***************************************************************************)

\* Init() called again on the engine.
LooperInit(num_undo_levels) ==
  /\ ~halted
  /\ eng' = InitOp(eng, num_undo_levels)
  /\ engCall' = EngCall("Init", FALSE, 0, -1, NoIdeal)
  /\ UNCHANGED halted

StartRecording ==
  /\ ~halted
  /\ eng' = StartRecordingOp(eng)
  /\ engCall' = EngCall("StartRecording", FALSE, 0, -1, NoIdeal)
  /\ UNCHANGED halted

StopRecording ==
  /\ ~halted
  /\ eng' = StopRecordingOp(eng)
  /\ engCall' = EngCall("StopRecording", FALSE, 0, -1, NoIdeal)
  /\ UNCHANGED halted

Process(in) ==
  /\ ~halted
  /\ eng.play_head <= MaxPlayHead
  /\ eng.play_head >= -MaxPlayHead
  /\ \E ub \in UBChoices(eng) :
       LET r == ProcessOp(eng, in, ub)
       IN  /\ eng' = r.eng
           /\ halted' = r.trap
           /\ engCall' = EngCall("Process", FALSE, r.ret, r.widx, NoIdeal)

\* Callers pass start <= end.
SetLoopRegion(start_sample, end_sample) ==
  /\ ~halted
  /\ start_sample <= end_sample
  /\ eng' = SetLoopRegionOp(eng, start_sample, end_sample)
  /\ engCall' = EngCall("SetLoopRegion", FALSE, 0, -1, NoIdeal)
  /\ UNCHANGED halted

\* memcpy(.., _buffer + _loop_start, sizeof(float) * _loop_length) and its
\* converse stay inside the buffer (and inside the slot, whose capacity is
\* the buffer's).
MemcpyInBounds(e) == e.loop_start + e.loop_length <= BufLen

\* The first index outside the buffer that the memcpy touches otherwise.
FirstOutside(e) == IF e.loop_start > BufLen THEN e.loop_start ELSE BufLen

\* A history call whose memcpy leaves the arrays: undefined behaviour.
OutOfBounds(op) ==
  /\ halted' = TRUE
  /\ engCall' = EngCall(op, FALSE, 0, FirstOutside(eng), NoIdeal)
  /\ UNCHANGED eng

\* SaveUndoState copies unless it returns at once.
Saves(e) == e.undo_enabled /\ e.undo_count # 0

StartOverdub ==
  /\ ~halted
  /\ IF Saves(eng) /\ ~MemcpyInBounds(eng) THEN OutOfBounds("StartOverdub")
     ELSE /\ eng' = StartOverdubOp(eng)
          /\ engCall' = EngCall("StartOverdub", FALSE, 0, -1, NoIdeal)
          /\ UNCHANGED halted

StopOverdub ==
  /\ ~halted
  /\ eng' = StopOverdubOp(eng)
  /\ engCall' = EngCall("StopOverdub", FALSE, 0, -1, NoIdeal)
  /\ UNCHANGED halted

Restart ==
  /\ ~halted
  /\ eng' = RestartOp(eng)
  /\ engCall' = EngCall("Restart", FALSE, 0, -1, NoIdeal)
  /\ UNCHANGED halted

SaveUndoState ==
  /\ ~halted
  /\ IF Saves(eng) /\ ~MemcpyInBounds(eng) THEN OutOfBounds("SaveUndoState")
     ELSE /\ eng' = SaveUndoStateOp(eng)
          /\ engCall' = EngCall("SaveUndoState", FALSE, 0, -1, NoIdeal)
          /\ UNCHANGED halted

Undo ==
  /\ ~halted
  /\ IF CanUndo(eng) /\ ~MemcpyInBounds(eng) THEN OutOfBounds("Undo")
     ELSE LET r == UndoOp(eng)
          IN  /\ eng' = r.eng
              /\ engCall' = EngCall("Undo", r.ret, 0, -1, LinTop(lin, eng))
              /\ UNCHANGED halted

Redo ==
  /\ ~halted
  /\ IF CanRedo(eng) /\ ~MemcpyInBounds(eng) THEN OutOfBounds("Redo")
     ELSE LET r == RedoOp(eng)
          IN  /\ eng' = r.eng
              /\ engCall' = EngCall("Redo", r.ret, 0, -1, NoIdeal)
              /\ UNCHANGED halted

SetReverse(reverse) ==
  /\ ~halted
  /\ eng' = SetReverseOp(eng, reverse)
  /\ engCall' = EngCall("SetReverse", FALSE, 0, -1, NoIdeal)
  /\ UNCHANGED halted

SetPlaybackSpeed(speed) ==
  /\ ~halted
  /\ eng' = SetPlaybackSpeedOp(eng, speed)
  /\ engCall' = EngCall("SetPlaybackSpeed", FALSE, 0, -1, NoIdeal)
  /\ UNCHANGED halted

\* Tempi (beats per minute) given to SetTempo; 0 is refused.
Bpms == {0, 20, 30, 60, 120}

\* Sample rates given to SetTempo; 0 is refused.
Rates == 0 .. MaxRate

\* Beat counts given to SetQuantize; 0 selects the default.
Beats == 0 .. MaxBeats

\* Sample positions given to QuantizeLoopRegion: the lowest and the highest
\* values of a size_t.
Positions == (0 .. MaxPos) \cup ((SizeMod - 1 - MaxPos) .. (SizeMod - 1))

SetTempo(bpm, sample_rate) ==
  /\ qz' = SetTempoOp(qz, bpm, sample_rate)
  /\ qzCall' = QzCall("SetTempo", bpm, sample_rate,
                      [out_start |-> 0, out_end |-> 0])

SetQuantize(enable, beats) ==
  /\ qz' = SetQuantizeOp(qz, enable, beats)
  /\ qzCall' = QzCall("SetQuantize", 0, 0, [out_start |-> 0, out_end |-> 0])

QuantizeLoopRegion(start_sample, end_sample) ==
  /\ qzCall' = QzCall("QuantizeLoopRegion", start_sample, end_sample,
                      QuantizeLoopRegionOp(qz, start_sample, end_sample))
  /\ UNCHANGED qz

(***************************************************************************)
(* The calls on the ClockSync object.                                      *)
(***************************************************************************)

\* Tempi (beats per minute) given to SetBPM, and to SetTempo next to the
\* clock; those that are not positive are refused.
Tempi == {-60, 0, 20, 45, 120}

\* Sample rates given to SetSampleRate, and to SetTempo next to the clock;
\* those that are not positive are refused.
SampleRates == -1 .. MaxRate

\* Numerators and denominators given to SetTimeSignature; 0 is refused.
Numerators == 0 .. MaxNum
Denominators == {0, 4, 8}

\* The configuration of the clock is what CalculateTimings() reads and
\* writes and what Tick() compares against.
Configuration(c) ==
  <<c.bpm, c.sample_rate, c.time_sig_numerator, c.time_sig_denominator,
    c.samples_per_beat, c.samples_per_bar>>

TicksAfterSetter ==
  IF Configuration(clk') = Configuration(clk) THEN tk ELSE -1

SetBPM(bpm) ==
  /\ clk' = SetBPMOp(clk, bpm)
  /\ clkCall' = ClkCall("SetBPM", bpm, 0, 0, FALSE)
  /\ tk' = TicksAfterSetter

SetSampleRate(sample_rate) ==
  /\ clk' = SetSampleRateOp(clk, sample_rate)
  /\ clkCall' = ClkCall("SetSampleRate", sample_rate, 0, 0, FALSE)
  /\ tk' = TicksAfterSetter

SetTimeSignature(numerator, denominator) ==
  /\ clk' = SetTimeSignatureOp(clk, numerator, denominator)
  /\ clkCall' = ClkCall("SetTimeSignature", numerator, denominator, 0, FALSE)
  /\ tk' = TicksAfterSetter

Tick ==
  /\ tk < MaxTicks
  /\ clk.sample_counter < MaxTicks
  /\ clk' = TickOp(clk)
  /\ clkCall' = ClkCall("Tick", 0, 0, 0, TickBeat(clk))
  /\ tk' = IF tk >= 0 THEN tk + 1 ELSE -1

ClockReset ==
  /\ clk' = ClockResetOp(clk)
  /\ clkCall' = ClkCall("Reset", 0, 0, 0, FALSE)
  /\ tk' = 0

GetBeatAlignedLength(samples) ==
  /\ clkCall' = ClkCall("GetBeatAlignedLength", samples, 0,
                        GetBeatAlignedLengthOp(clk, samples), FALSE)
  /\ UNCHANGED <<clk, tk>>

SnapToNearestBeat(sample_position) ==
  /\ clkCall' = ClkCall("SnapToNearestBeat", sample_position, 0,
                        SnapToNearestBeatOp(clk, sample_position), FALSE)
  /\ UNCHANGED <<clk, tk>>

(***************************************************************************)
(* SetLoopRegion as the control context runs it while the audio callback   *)
(* can interrupt it.  The fields are plain (non-atomic, non-volatile)      *)
(* members and loop() masks no interrupt around the call, so the callback  *)
(* can run between any two of its memory accesses, and the two stores to   *)
(* _loop_start and _loop_length can be emitted in either order.            *)
(***************************************************************************)

\* The value SetLoopRegion stores in _loop_length.
RegionLength(start_sample, end_sample) ==
  SetLoopRegionOp(eng, start_sample, end_sample).loop_length

StoreRegionField(e, field, region) ==
  IF field = "start" THEN [e EXCEPT !.loop_start = region[1]]
  ELSE [e EXCEPT !.loop_length = region[2]]

\* Entry of SetLoopRegion and the first of its two stores.
SetLoopRegionFirstStore(start_sample, end_sample, field) ==
  /\ ~halted
  /\ ctl.pc = "idle"
  /\ start_sample <= end_sample
  /\ LET region == <<start_sample, RegionLength(start_sample, end_sample)>>
     IN  /\ eng' = StoreRegionField(eng, field, region)
         /\ ctl' = [ctl EXCEPT !.pc = "store",
                               !.todo = IF field = "start" THEN "length"
                                        ELSE "start",
                               !.next = region]
  /\ engCall' = EngCall("SetLoopRegion", FALSE, 0, -1, NoIdeal)
  /\ UNCHANGED halted

\* The other store.
SetLoopRegionSecondStore ==
  /\ ~halted
  /\ ctl.pc = "store"
  /\ eng' = StoreRegionField(eng, ctl.todo, ctl.next)
  /\ ctl' = [ctl EXCEPT !.pc = "test", !.todo = "-"]
  /\ engCall' = EngCall("SetLoopRegion", FALSE, 0, -1, NoIdeal)
  /\ UNCHANGED halted

\* if (_play_head >= _loop_length): the load and the comparison.
SetLoopRegionTest ==
  /\ ~halted
  /\ ctl.pc = "test"
  /\ ctl' = IF eng.play_head >= ctl.next[2] * PHScale
            THEN [ctl EXCEPT !.pc = "reset"]
            ELSE [ctl EXCEPT !.pc = "idle", !.done = ctl.next]
  /\ engCall' = EngCall("SetLoopRegion", FALSE, 0, -1, NoIdeal)
  /\ UNCHANGED <<eng, halted>>

\* _play_head = 0; and the return.
SetLoopRegionReset ==
  /\ ~halted
  /\ ctl.pc = "reset"
  /\ eng' = [eng EXCEPT !.play_head = 0]
  /\ ctl' = [ctl EXCEPT !.pc = "idle", !.done = ctl.next]
  /\ engCall' = EngCall("SetLoopRegion", FALSE, 0, -1, NoIdeal)
  /\ UNCHANGED halted

(***************************************************************************)
(* The application's steps: one per button handler of loop(), and one per  *)
(* sample of AudioCallback.                                                *)
(***************************************************************************)

\* The common part of a step: the new engine and globals, and what the step
\* found.
AppStep(op, s, processed, out, widx, trap) ==
  /\ eng' = s.eng
  /\ app' = s.app
  /\ halted' = trap
  /\ engCall' = EngCall(op, FALSE, out, widx, NoIdeal)
  /\ appCall' = AppCall(op, app, eng, processed)

\* REC goes down.
RecPress ==
  /\ ~halted
  /\ app.pc = PcIdle
  /\ IF app.looper_state = "PLAYING" /\ Saves(eng) /\ ~MemcpyInBounds(eng)
     THEN AppStep("RecPress", [app |-> app, eng |-> eng], FALSE, 0,
                  FirstOutside(eng), TRUE)
     ELSE AppStep("RecPress", RecPressOp(app, eng), FALSE, 0, -1, FALSE)
  /\ appObs' = IF app.looper_state = "STOPPED"
               THEN [appObs EXCEPT !.written = 0, !.stored = FALSE,
                                   !.full = FALSE]
               ELSE appObs

\* REC goes up.
RecRelease ==
  /\ ~halted
  /\ app.pc = PcIdle
  /\ AppStep("RecRelease", RecReleaseOp(app, eng), FALSE, 0, -1, FALSE)
  /\ appObs' = IF app.looper_state = "RECORDING"
               THEN [appObs EXCEPT !.stored = TRUE]
               ELSE appObs

\* PLAY goes down for the second time.
PlayDoublePress ==
  /\ ~halted
  /\ app.pc = PcIdle
  /\ AppStep("PlayDoublePress", PlayDoublePressOp(app, eng), FALSE, 0, -1,
             FALSE)
  /\ appObs' = [appObs EXCEPT !.kept = FALSE, !.stored = FALSE]

\* PLAY went down once and the time for a second press has run out.
PlaySinglePress ==
  /\ ~halted
  /\ app.pc = PcIdle
  /\ AppStep("PlaySinglePress",
             [app |-> PlaySinglePressOp(app), eng |-> eng], FALSE, 0, -1,
             FALSE)
  /\ appObs' = IF app.looper_state = "PLAYING"
               THEN [appObs EXCEPT
                       !.held = [play_head |-> eng.play_head,
                                 buffer |-> eng.buffer],
                       !.kept = TRUE, !.sampled = FALSE]
               ELSE appObs

\* STOP goes down.
StopPress ==
  /\ ~halted
  /\ app.pc = PcIdle
  /\ AppStep("StopPress", StopPressOp(app, eng), FALSE, 0, -1, FALSE)
  /\ UNCHANGED appObs

\* RESET goes down for the second time.
ResetDoublePress ==
  /\ ~halted
  /\ app.pc = PcIdle
  /\ AppStep("ResetDoublePress", ResetDoublePressOp(app, eng), FALSE, 0, -1,
             FALSE)
  /\ appObs' = IF app.recorded_samples > 0
               THEN [appObs EXCEPT !.kept = FALSE]
               ELSE appObs

\* The audio interrupt handles one sample.  It runs to its end before
\* loop() goes on, wherever loop() is.
AudioCallback(in) ==
  /\ ~halted
  /\ eng.play_head <= MaxPlayHead
  /\ eng.play_head >= -MaxPlayHead
  /\ \E ub \in UBChoices(eng) :
       LET r == AudioSampleOp(app, eng, in, ub)
       IN  AppStep("AudioCallback", r, CallsProcess(app), r.ret, r.widx,
                   r.trap)
  /\ appObs' =
       [appObs EXCEPT
          !.kept = appObs.kept /\ app.looper_state = "PAUSED",
          !.sampled = appObs.sampled
                      \/ (appObs.kept /\ app.looper_state = "PAUSED"),
          !.written = IF CallsProcess(app) /\ eng.is_recording
                      THEN appObs.written + 1 ELSE appObs.written,
          !.full = appObs.full
                   \/ (CallsProcess(app) /\ eng.is_recording
                       /\ eng.rec_head + 1 >= kBufferLengthSamples)]

\* loop() executes the next statement of the REC press handler (h = "press",
\* entered when looper_state is STOPPED) or of the REC release handler
\* (h = "release", entered when looper_state is RECORDING).  loop() masks no
\* interrupt in these handlers, so the callback can run between any two
\* statements.
RecHandlerStatement(h) ==
  /\ ~halted
  /\ \/ app.pc.h = h
     \/ /\ app.pc = PcIdle
        /\ app.looper_state = IF h = "press" THEN "STOPPED" ELSE "RECORDING"
  /\ LET k == app.pc.k + 1
         s == Statement(h, k, [app |-> app, eng |-> eng])
     IN  /\ AppStep(IF h = "press" THEN "RecPress" ELSE "RecRelease",
                    [s EXCEPT !.app.pc = IF k = HandlerLen(h) THEN PcIdle
                                         ELSE [h |-> h, k |-> k]],
                    FALSE, 0, -1, FALSE)
         /\ appObs' =
              IF h = "press" /\ k = 2
              THEN [appObs EXCEPT !.written = 0, !.full = FALSE]
              ELSE IF h = "press" /\ k = 4
              THEN [appObs EXCEPT !.stored = FALSE]
              ELSE IF h = "release" /\ k = 2
              THEN [appObs EXCEPT !.stored = TRUE]
              ELSE appObs

(***************************************************************************)
(* Specifications                                                          *)
(***************************************************************************)

\* The state machine driven by any sequence of calls.
Init == InitSM /\ InitEngineNoUndo

Next ==
  \/ \E event \in LooperEvent : ProcessEvent(event) /\ UNCHANGED engVars
  \/ \E new_state \in LooperState : TransitionTo(new_state) /\ UNCHANGED engVars
  \/ \E from \in LooperState, to \in LooperState :
        CanTransitionCall(from, to) /\ UNCHANGED engVars
  \/ Reset /\ UNCHANGED engVars

Spec == Init /\ [][Next]_vars

\* Recording and playback: the engine set up without undo buffers and driven
\* by any sequence of recording, region and Process calls.
InitRecord == InitSM /\ InitEngineNoUndo

Recorded(op, in) ==
  take' = TakeAfter(op, in) /\ UNCHANGED <<lin, auxVars, smVars>>

NextRecord ==
  \/ StartRecording /\ Recorded("StartRecording", 0)
  \/ StopRecording /\ Recorded("StopRecording", 0)
  \/ \E in \in InSample : Process(in) /\ Recorded("Process", in)
  \/ \E s \in Index, e \in Index : SetLoopRegion(s, e)
                                    /\ Recorded("SetLoopRegion", 0)
  \/ Restart /\ Recorded("Restart", 0)

SpecRecord == InitRecord /\ [][NextRecord]_vars

\* Undo history: the engine set up with undo buffers, holding a first take,
\* and driven by any sequence of overdub, Process and history calls.
InitUndo == InitSM /\ InitEngineUndo

Tracked(op) == lin' = LinAfter(op) /\ UNCHANGED <<take, auxVars, smVars>>

NextUndo ==
  \/ SaveUndoState /\ Tracked("SaveUndoState")
  \/ Undo /\ Tracked("Undo")
  \/ Redo /\ Tracked("Redo")
  \/ StartOverdub /\ Tracked("StartOverdub")
  \/ StopOverdub /\ Tracked("StopOverdub")
  \/ \E in \in InSample : Process(in) /\ Tracked("Process")

SpecUndo == InitUndo /\ [][NextUndo]_vars

\* Bounded history: the engine set up with or without undo buffers, holding
\* a first take, and driven by every sequence of at most MaxCalls overdub,
\* Process and history calls.
InitHist ==
  /\ InitSM
  /\ \E n \in 0 .. MaxLevelsArg : \E bufs \in PowerOnUndoBuffers :
        \E xs \in Takes :
           eng = FirstTake(EngineInit(n, IF n = 0 THEN NoUndoBuffers
                                         ELSE bufs), xs)
  /\ InitObservations

Followed(op) ==
  /\ calls < MaxCalls
  /\ calls' = calls + 1
  /\ od' = OdAfter(op)
  /\ run' = RunAfter(op)
  /\ UNCHANGED <<take, lin, before, ctl, qz, qzCall, clkVars, appVars,
              smVars>>

NextHist ==
  \/ SaveUndoState /\ Followed("SaveUndoState")
  \/ Undo /\ Followed("Undo")
  \/ Redo /\ Followed("Redo")
  \/ StartOverdub /\ Followed("StartOverdub")
  \/ StopOverdub /\ Followed("StopOverdub")
  \/ \E in \in InSample : Process(in) /\ Followed("Process")

SpecHist == InitHist /\ [][NextHist]_vars

\* Playback: the engine without undo buffers, holding a take that fills the
\* buffer, and driven by any sequence of region, direction, speed, restart
\* and Process(0) calls.
InitPlay == InitSM /\ InitEnginePlay

Played ==
  /\ before' = eng
  /\ UNCHANGED <<take, lin, od, run, calls, ctl, qz, qzCall, clkVars, appVars,
              smVars>>

NextPlay ==
  \/ Process(0) /\ Played
  \/ \E s \in Index, e \in Index : SetLoopRegion(s, e) /\ Played
  \/ \E reverse \in BOOLEAN : SetReverse(reverse) /\ Played
  \/ \E speed \in Speeds : SetPlaybackSpeed(speed) /\ Played
  \/ Restart /\ Played

SpecPlay == InitPlay /\ [][NextPlay]_vars

\* Regions beyond the buffer: the engine set up with undo buffers, holding a
\* first take, and driven by every sequence of at most MaxCalls region,
\* overdub, Process and history calls, SetLoopRegion being given any
\* start <= end up to the capacity (one past the last index).
InitWide == InitSM /\ InitEngineUndo

Counted ==
  /\ calls < MaxCalls
  /\ calls' = calls + 1
  /\ UNCHANGED <<take, lin, od, run, before, ctl, qz, qzCall, clkVars, appVars,
              smVars>>

NextWide ==
  \/ \E s \in 0 .. BufLen, e \in 0 .. BufLen : SetLoopRegion(s, e) /\ Counted
  \/ SaveUndoState /\ Counted
  \/ Undo /\ Counted
  \/ Redo /\ Counted
  \/ StartOverdub /\ Counted
  \/ StopOverdub /\ Counted
  \/ \E in \in InSample : Process(in) /\ Counted

SpecWide == InitWide /\ [][NextWide]_vars

\* Quantisation: the engine's tempo and quantise settings changed in any
\* order, and QuantizeLoopRegion applied to any pair of positions.
InitQuant == InitSM /\ InitEngineNoUndo

Quantised ==
  UNCHANGED <<eng, halted, engCall, take, lin, od, run, calls, before, ctl,
              clkVars, appVars,
              smVars>>

NextQuant ==
  \/ \E bpm \in Bpms, sample_rate \in Rates :
        SetTempo(bpm, sample_rate) /\ Quantised
  \/ \E enable \in BOOLEAN, beats \in Beats :
        SetQuantize(enable, beats) /\ Quantised
  \/ \E start_sample \in Positions, end_sample \in Positions :
        QuantizeLoopRegion(start_sample, end_sample) /\ Quantised

SpecQuant == InitQuant /\ [][NextQuant]_vars

\* Region editing during playback: loop() calls SetLoopRegion while the
\* audio callback, an interrupt, calls Process(0) for every sample.
InitTorn == InitSM /\ InitEnginePlay

Control == UNCHANGED <<take, lin, od, run, calls, before, qz, qzCall, clkVars, appVars,
              smVars>>

Audio ==
  /\ before' = eng
  /\ UNCHANGED <<take, lin, od, run, calls, ctl, qz, qzCall, clkVars, appVars,
              smVars>>

NextTorn ==
  \/ \E s \in Index, e \in Index, field \in {"start", "length"} :
        SetLoopRegionFirstStore(s, e, field) /\ Control
  \/ SetLoopRegionSecondStore /\ Control
  \/ SetLoopRegionTest /\ Control
  \/ SetLoopRegionReset /\ Control
  \/ Process(0) /\ Audio

SpecTorn == InitTorn /\ [][NextTorn]_vars

\* The clock: tempo, sample rate and time signature set in any order while
\* Tick() counts samples and Reset() restarts the count.
InitClock == InitSM /\ InitEngineNoUndo

OnClock ==
  /\ qzCall' = QzNone
  /\ UNCHANGED <<eng, halted, engCall, take, lin, od, run, calls, before, ctl,
                 qz, appVars, smVars>>

OnTempo ==
  /\ clkCall' = ClkNone
  /\ UNCHANGED <<eng, halted, engCall, take, lin, od, run, calls, before, ctl,
                 clk, tk, appVars, smVars>>

NextClock ==
  \/ \E bpm \in Tempi : SetBPM(bpm) /\ OnClock
  \/ \E sample_rate \in SampleRates : SetSampleRate(sample_rate) /\ OnClock
  \/ \E numerator \in Numerators, denominator \in Denominators :
        SetTimeSignature(numerator, denominator) /\ OnClock
  \/ Tick /\ OnClock
  \/ ClockReset /\ OnClock

SpecClock == InitClock /\ [][NextClock]_vars

\* Tempo configuration: the setters of the clock and the engine's own
\* SetTempo called in any order while Tick() counts samples.
InitTempo == InitSM /\ InitEngineNoUndo

NextTempo ==
  \/ \E bpm \in Tempi : SetBPM(bpm) /\ OnClock
  \/ \E sample_rate \in SampleRates : SetSampleRate(sample_rate) /\ OnClock
  \/ \E numerator \in Numerators, denominator \in Denominators :
        SetTimeSignature(numerator, denominator) /\ OnClock
  \/ Tick /\ OnClock
  \/ \E bpm \in Tempi, sample_rate \in SampleRates :
        SetTempo(bpm, sample_rate) /\ OnTempo

SpecTempo == InitTempo /\ [][NextTempo]_vars

\* Beat alignment: GetBeatAlignedLength and SnapToNearestBeat applied to any
\* position under any tempo.
InitSnap == InitSM /\ InitEngineNoUndo

NextSnap ==
  \/ \E bpm \in Tempi : SetBPM(bpm) /\ OnClock
  \/ \E sample_rate \in SampleRates : SetSampleRate(sample_rate) /\ OnClock
  \/ \E samples \in Positions : GetBeatAlignedLength(samples) /\ OnClock
  \/ \E sample_position \in Positions :
        SnapToNearestBeat(sample_position) /\ OnClock

SpecSnap == InitSnap /\ [][NextSnap]_vars

\* Setup: the engine as Init() leaves the static object, used through up to
\* MaxCalls calls among which Init() can come again.
InitSetup ==
  /\ InitSM
  /\ \E n \in 0 .. MaxLevelsArg : \E bufs \in PowerOnUndoBuffers :
        eng = EngineInit(n, IF n = 0 THEN NoUndoBuffers ELSE bufs)
  /\ InitObservations

NextSetup ==
  \/ \E n \in 0 .. MaxLevelsArg : LooperInit(n) /\ Counted
  \/ StartRecording /\ Counted
  \/ StopRecording /\ Counted
  \/ \E s \in Index, e \in Index : SetLoopRegion(s, e) /\ Counted
  \/ StartOverdub /\ Counted
  \/ SaveUndoState /\ Counted
  \/ Undo /\ Counted
  \/ \E in \in InSample : Process(in) /\ Counted

SpecSetup == InitSetup /\ [][NextSetup]_vars

\* Overdubbing during playback: the engine without undo buffers, holding a
\* take that fills the buffer, overdubbed while region, direction and speed
\* change.
InitDub == InitSM /\ InitEnginePlay

NextDub ==
  \/ StartOverdub /\ Played
  \/ StopOverdub /\ Played
  \/ \E in \in InSample : Process(in) /\ Played
  \/ \E s \in Index, e \in Index : SetLoopRegion(s, e) /\ Played
  \/ \E reverse \in BOOLEAN : SetReverse(reverse) /\ Played
  \/ \E speed \in Speeds : SetPlaybackSpeed(speed) /\ Played

SpecDub == InitDub /\ [][NextDub]_vars

\* The crossfade: the engine with a long buffer holding a take, its region
\* set to a part of the buffer around twice the crossfade window, and
\* recordings started and stopped.
InitFade == InitSM /\ InitEngineLong

NextFade ==
  \/ StartRecording /\ Played
  \/ StopRecording /\ Played

SpecFade == InitFade /\ [][NextFade]_vars

\* setup(): looper.Init(buffer, kBufferLengthSamples, undo_buffers, 3).
InitApp ==
  /\ InitSM
  /\ \E bufs \in PowerOnUndoBuffers : eng = EngineInit(MAX_UNDO_LEVELS, bufs)
  /\ InitObservations

InApp ==
  UNCHANGED <<take, lin, od, run, calls, before, ctl, qz, qzCall, clkVars,
              smVars>>

\* Longest run of the application followed, in steps.
MaxSteps == 10

Stepped ==
  /\ calls < MaxSteps
  /\ calls' = calls + 1
  /\ UNCHANGED <<take, lin, od, run, before, ctl, qz, qzCall, clkVars,
                 smVars>>

\* The application: the buttons pressed in any order, every handler of
\* loop() running between two samples of the audio callback; every run of
\* at most MaxSteps handlers and samples.
NextApp ==
  \/ RecPress /\ Stepped
  \/ RecRelease /\ Stepped
  \/ PlayDoublePress /\ Stepped
  \/ PlaySinglePress /\ Stepped
  \/ StopPress /\ Stepped
  \/ ResetDoublePress /\ Stepped
  \/ \E in \in InSample : AudioCallback(in) /\ Stepped

SpecApp == InitApp /\ [][NextApp]_vars

\* Recording a take: REC pressed and released, the audio callback running
\* between any two statements of the two handlers, and PLAY pressed twice
\* to clear the take.
NextTake ==
  \/ RecHandlerStatement("press") /\ InApp
  \/ RecHandlerStatement("release") /\ InApp
  \/ PlayDoublePress /\ InApp
  \/ \E in \in InSample : AudioCallback(in) /\ InApp

SpecTake == InitApp /\ [][NextTake]_vars

(***************************************************************************)
(* Properties                                                              *)
(***************************************************************************)

\* The event table of the state machine: <<state, event, next state>>.
EventTable ==
  {<<"IDLE", "PRESS_REC", "RECORDING_INITIAL">>,
   <<"RECORDING_INITIAL", "RELEASE_REC", "PLAYING">>,
   <<"RECORDING_INITIAL", "PRESS_STOP", "IDLE">>,
   <<"PLAYING", "PRESS_REC", "OVERDUBBING">>,
   <<"PLAYING", "PRESS_PAUSE", "PAUSED">>,
   <<"PLAYING", "PRESS_STOP", "IDLE">>,
   <<"PLAYING", "CLEAR_LOOP", "IDLE">>,
   <<"OVERDUBBING", "RELEASE_REC", "PLAYING">>,
   <<"OVERDUBBING", "PRESS_STOP", "IDLE">>,
   <<"PAUSED", "PRESS_PLAY", "PLAYING">>,
   <<"PAUSED", "PRESS_PAUSE", "PLAYING">>,
   <<"PAUSED", "PRESS_STOP", "IDLE">>,
   <<"PAUSED", "CLEAR_LOOP", "IDLE">>}

\* C1: ProcessEvent moves the machine to exactly the next state the event
\* table gives for (state, event) and returns true; for a pair that is not in
\* the table the state is unchanged and it returns false.
C1_ProcessEventFollowsTable ==
  smCall.op = "ProcessEvent" =>
    LET rows == {t \in EventTable : t[1] = smCall.from /\ t[2] = smCall.arg}
    IN  /\ rows # {} =>
              /\ \A t \in rows : current_state = t[3]
              /\ smCall.ret = TRUE
        /\ rows = {} =>
              /\ current_state = smCall.from
              /\ previous_state = smCall.fromPrev
              /\ smCall.ret = FALSE

\* A table row has been taken: PAUSED + PRESS_PLAY -> PLAYING.
C1_Witness ==
  /\ smCall.op = "ProcessEvent"
  /\ smCall.from = "PAUSED"
  /\ smCall.arg = "PRESS_PLAY"
  /\ smCall.ret = TRUE
  /\ current_state = "PLAYING"

\* The successor sets of the transition table, IDLE left out.
SuccessorSet(from) ==
  CASE from = "IDLE"              -> {"RECORDING_INITIAL"}
    [] from = "RECORDING_INITIAL" -> {"PLAYING"}
    [] from = "PLAYING"           -> {"OVERDUBBING", "PAUSED"}
    [] from = "OVERDUBBING"       -> {"PLAYING"}
    [] from = "PAUSED"            -> {"PLAYING"}

\* C2: CanTransition(from, to) is true exactly when to is IDLE or to is in
\* the successor set of from, and the call changes no machine state.
C2_CanTransitionTable ==
  smCall.op = "CanTransition" =>
    /\ smCall.ret = (smCall.arg2 = "IDLE" \/ smCall.arg2 \in SuccessorSet(smCall.arg))
    /\ current_state = smCall.from
    /\ previous_state = smCall.fromPrev

\* CanTransition(IDLE, IDLE) has been asked, and answered true, while the
\* machine was in another state.
C2_Witness ==
  /\ smCall.op = "CanTransition"
  /\ smCall.arg = "IDLE"
  /\ smCall.arg2 = "IDLE"
  /\ smCall.ret = TRUE
  /\ current_state = "PLAYING"

\* C3: a TransitionTo whose target fails CanTransition(current, target)
\* returns false, leaves current and previous state unchanged and invokes
\* neither OnExit nor OnEnter.
C3_InvalidTransitionRejected ==
  (smCall.op = "TransitionTo" /\ ~CanTransition(smCall.from, smCall.arg)) =>
    /\ smCall.ret = FALSE
    /\ current_state = smCall.from
    /\ previous_state = smCall.fromPrev
    /\ smCall.calls = <<>>

\* TransitionTo(PAUSED) has been rejected in OVERDUBBING.
C3_Witness ==
  /\ smCall.op = "TransitionTo"
  /\ smCall.from = "OVERDUBBING"
  /\ smCall.arg = "PAUSED"
  /\ smCall.ret = FALSE
  /\ current_state = "OVERDUBBING"
  /\ previous_state = "PLAYING"

\* C4: after StartRecording(), n Process calls with inputs x1..xn
\* (1 <= n < capacity) and StopRecording(), with no other call in between,
\* the loop length is n and the next Process(0) calls return x1..xn in order.
C4_TakePlaysBack ==
  (take.phase = "stopped" /\ Len(take.ins) >= 1 /\ Len(take.ins) < BufLen) =>
    /\ eng.loop_length = Len(take.ins)
    /\ \A k \in 1 .. Len(take.outs) : take.outs[k] = take.ins[k] * PHScale

\* C5: while recording, every buffer write index is inside the buffer, the
\* recording flag is set exactly until the capacity-th sample has been
\* recorded and stays clear afterwards, and later Process calls write
\* nothing outside the buffer.
C5_RecordingStopsAtCapacity ==
  /\ engCall.widx # -1 => engCall.widx \in Index
  /\ take.phase = "rec" =>
       /\ eng.is_recording = (Len(take.ins) < BufLen)
       /\ eng.is_recording => eng.rec_head = Len(take.ins)
       /\ (engCall.op = "Process" /\ Len(take.ins) <= BufLen) =>
             /\ engCall.widx = Len(take.ins) - 1
             /\ eng.buffer[engCall.widx] = take.ins[Len(take.ins)]
       /\ (engCall.op = "Process" /\ Len(take.ins) > BufLen) =>
             engCall.widx = -1

\* More samples than the capacity have been fed to a recording.
C5_Witness ==
  /\ take.phase = "rec"
  /\ Len(take.ins) = BufLen + 1
  /\ engCall.op = "Process"
  /\ ~eng.is_recording

\* C6: Redo after Undo is the identity: in a state reached by at most
\* undo_count saves in which Undo succeeds, Undo() followed by Redo() leaves
\* the loop-region content and both depths as they were.
C6_RedoAfterUndoIsIdentity ==
  LET u == UndoOp(eng)
      r == RedoOp(u.eng)
  IN  (lin.saves <= eng.undo_count /\ u.ret) =>
        /\ r.ret
        /\ Region(r.eng) = Region(eng)
        /\ r.eng.undo_depth = eng.undo_depth
        /\ r.eng.redo_depth = eng.redo_depth

\* C7: Undo after Redo is the identity: in a state reached by at most
\* undo_count saves (plus undos) in which Redo succeeds, Redo() followed by
\* Undo() leaves the loop-region content and both depths as they were.
C7_UndoAfterRedoIsIdentity ==
  LET r == RedoOp(eng)
      u == UndoOp(r.eng)
  IN  (lin.pure /\ lin.saves <= eng.undo_count /\ r.ret) =>
        /\ u.ret
        /\ Region(u.eng) = Region(eng)
        /\ u.eng.undo_depth = eng.undo_depth
        /\ u.eng.redo_depth = eng.redo_depth

\* C8: 0 <= undo_depth <= undo_count and 0 <= redo_depth <= undo_count - 1
\* after any sequence of SaveUndoState, Undo and Redo calls.
C8_DepthBounds ==
  /\ 0 <= eng.undo_depth
  /\ eng.undo_depth <= eng.undo_count
  /\ 0 <= eng.redo_depth
  /\ eng.redo_depth <= eng.undo_count - 1

\* C9: from a SaveUndoState() call until the next successful Undo(),
\* CanRedo() is false and Redo() returns false.
C9_SaveDiscardsRedo ==
  lin.afterSave => (~CanRedo(eng) /\ ~RedoOp(eng).ret)

\* C10: history is linear: a successful Undo restores the snapshot on top
\* of the linear history (so after an Undo followed by a save, the undone
\* snapshot is never restored again).
C10_LinearHistory ==
  (engCall.op = "Undo" /\ engCall.ok /\ engCall.ideal.known) =>
     Region(eng) = engCall.ideal.content

\* The fields C11 speaks of.
HistoryFields(e) ==
  <<e.buffer, e.undo_write_index, e.undo_read_index, e.undo_depth,
    e.redo_depth>>

\* C11: Undo() called with undo depth 0, Redo() called with redo depth 0,
\* and either of them called when no snapshot buffers were configured,
\* returns false and leaves the sample buffer, both cursors and both depth
\* counters as they were.
C11_ExhaustedHistoryIsNoOp ==
  [][ /\ (engCall'.op = "Undo" /\ (eng.undo_depth = 0 \/ ~eng.undo_enabled))
         => (~engCall'.ok /\ HistoryFields(eng') = HistoryFields(eng))
      /\ (engCall'.op = "Redo" /\ (eng.redo_depth = 0 \/ ~eng.undo_enabled))
         => (~engCall'.ok /\ HistoryFields(eng') = HistoryFields(eng)) ]_vars

\* Undo() has just been refused on a configured history that holds nothing
\* to undo while something could be redone.
C11_Witness ==
  /\ engCall.op = "Undo" /\ ~engCall.ok
  /\ eng.undo_enabled /\ eng.undo_depth = 0 /\ eng.redo_depth > 0

\* Undo() succeeds once for each snapshot of snaps, restoring them newest
\* first, and then fails.
RECURSIVE UndoRestores(_, _)
UndoRestores(e, snaps) ==
  LET r == UndoOp(e)
      n == Len(snaps)
  IN  IF n = 0 THEN ~r.ret
      ELSE /\ r.ret
           /\ Region(r.eng) = snaps[n]
           /\ UndoRestores(r.eng, SubSeq(snaps, 1, n - 1))

\* C12: after a run of at least undo_count consecutive saves (no Undo or
\* Redo between them), exactly undo_count consecutive Undo() calls succeed,
\* restoring the undo_count most recent snapshots newest first, and the
\* next Undo() returns false.
C12_SaveSaturates ==
  (eng.undo_enabled /\ Len(run) = eng.undo_count) => UndoRestores(eng, run)

\* C13: with undo history configured, after StartOverdub(), any number of
\* Process calls in overdub mode and StopOverdub(), Undo() returns true and
\* the loop region holds what it held when StartOverdub() was called.
C13_OverdubIsUndoable ==
  eng.undo_enabled =>
    /\ od.phase = "stopped" =>
          LET r == UndoOp(eng)
          IN  r.ret /\ Region(r.eng) = od.content
    /\ od.phase = "undone" => (engCall.ok /\ Region(eng) = od.content)

\* An overdub pass that changed the loop has been stopped and undone.
C13_Witness ==
  /\ od.phase = "undone" /\ od.fed
  /\ engCall.op = "Undo" /\ engCall.ok

\* The playhead of e lies in [0, _loop_length).
PlayheadInRange(e) ==
  e.play_head >= 0 /\ e.play_head < e.loop_length * PHScale

\* The last call was a Process call that advanced the playhead.
ProcessAdvanced ==
  /\ engCall.op = "Process" /\ ~halted
  /\ ~before.is_recording /\ ~before.is_empty

\* C14: after SetLoopRegion(s, e) with e >= s, made in any engine state,
\* the loop length is e - s + 1, the loop start is s, and the playhead lies
\* in [0, length).
C14_SetLoopRegionPostcondition ==
  \A s \in Index, e \in Index :
     s <= e =>
       LET r == SetLoopRegionOp(eng, s, e)
       IN  /\ r.loop_length = e - s + 1
           /\ r.loop_start = s
           /\ PlayheadInRange(r)

C16_ReverseStep ==
  (ProcessAdvanced /\ before.reverse /\ before.playback_speed = PHScale
   /\ before.loop_length >= 1)
    => /\ before.play_head >= PHScale
            => eng.play_head = before.play_head - PHScale
       /\ before.play_head = 0
            => eng.play_head = (before.loop_length - 1) * PHScale

\* A reverse Process call at speed 1 has wrapped the playhead of a loop that
\* spans the buffer from 0 to its last sample.
C16_Witness ==
  /\ ProcessAdvanced
  /\ before.reverse /\ before.playback_speed = PHScale
  /\ before.loop_length = BufLen /\ before.play_head = 0
  /\ eng.play_head = (BufLen - 1) * PHScale

\* C17: in every interleaving of the control context's SetLoopRegion with
\* the audio callback's Process, whenever Process reads the buffer the loop
\* start and the loop length it finds were set by one and the same
\* SetLoopRegion call, and the playhead it finds lies in [0, length).
C17_NoTornRegion ==
  ProcessAdvanced =>
    /\ <<before.loop_start, before.loop_length>> \in {ctl.done, ctl.next}
    /\ PlayheadInRange(before)

\* C18: every sample-buffer and snapshot-slot access of an engine operation
\* uses an index in [0, capacity), whatever region SetLoopRegion was given
\* (regions with start + length > capacity included): no history call
\* copies beyond the arrays and Process writes inside the buffer.
C18_AccessesInBounds ==
  /\ engCall.op \in {"SaveUndoState", "StartOverdub", "Undo", "Redo"}
       => engCall.widx = -1
  /\ engCall.op = "Process" => engCall.widx \in Index \cup {-1}

\* QuantizeLoopRegion has just returned.
Quantized == qzCall.op = "QuantizeLoopRegion"

C20_QuantizedRegion ==
  (Quantized /\ qz.quantize /\ qz.samples_per_beat > 0)
    => LET unit == qz.quantize_beats * qz.samples_per_beat
           len  == (qzCall.out_end - qzCall.out_start) % SizeMod
       IN  /\ len % unit = 0
           /\ len >= unit
           /\ qzCall.out_start % qz.samples_per_beat = 0
           /\ 2 * Abs(qzCall.out_start - qzCall.start) <= qz.samples_per_beat

\* The last call on the clock was one of the two beat-alignment functions,
\* made with a beat length above 0.
Snapped ==
  /\ clkCall.op \in {"GetBeatAlignedLength", "SnapToNearestBeat"}
  /\ clk.samples_per_beat > 0

\* C21: GetBeatAlignedLength(samples) and SnapToNearestBeat(position) return
\* the multiple of samples_per_beat nearest to their argument, an exact tie
\* going to the higher multiple, for every argument and every
\* samples_per_beat > 0; applied to their own result they return it again.
C21_NearestBeat ==
  Snapped
    => LET spb == clk.samples_per_beat
           x   == clkCall.arg
           r   == clkCall.ret
       IN  /\ r % spb = 0
           /\ r - x <= spb \div 2
           /\ x - r <= (spb - 1) \div 2
           /\ GetBeatAlignedLengthOp(clk, r) = r
           /\ SnapToNearestBeatOp(clk, r) = r

\* C22: from Reset(), with samples_per_beat = S > 0 and the configuration
\* left alone, a Tick() reaches a new beat exactly when the number of ticks
\* is a multiple of S; after n ticks the beat counter is (n div S) mod
\* numerator and the sample counter is n mod S.
C22_BeatEverySTicks ==
  (tk >= 0 /\ clk.samples_per_beat > 0)
    => LET S == clk.samples_per_beat
       IN  /\ clk.beat_counter = (tk \div S) % clk.time_sig_numerator
           /\ clk.sample_counter = tk % S
           /\ clkCall.op = "Tick" => (clkCall.beat <=> tk % S = 0)

\* A whole bar of beats of at least two samples has been ticked since
\* Reset(): the beat counter is back at 0.
C22_Witness ==
  /\ tk >= 0 /\ clkCall.op = "Tick" /\ clkCall.beat
  /\ clk.samples_per_beat >= 2 /\ clk.time_sig_numerator >= 2
  /\ tk = clk.samples_per_beat * clk.time_sig_numerator
  /\ clk.beat_counter = 0 /\ clk.sample_counter = 0

\* The last call on the engine's quantiser was a SetTempo with a tempo and a
\* sample rate above 0.
TempoSet == qzCall.op = "SetTempo" /\ qzCall.start > 0 /\ qzCall.end > 0

\* C23: samples_per_beat is sample_rate * 60 / bpm rounded to the nearest
\* integer, in ClockSync after every setter and in the engine after
\* SetTempo.
C23_SamplesPerBeatRounded ==
  /\ 2 * Abs(clk.samples_per_beat * clk.bpm - clk.sample_rate * 60)
       <= clk.bpm
  /\ TempoSet
       => 2 * Abs(qz.samples_per_beat * qz.bpm - qzCall.end * 60) <= qz.bpm

\* A call on the clock with an argument that is refused.
RefusedClockCall(c) ==
  \/ c.op = "SetBPM" /\ c.arg <= 0
  \/ c.op = "SetSampleRate" /\ c.arg <= 0
  \/ c.op = "SetTimeSignature" /\ (c.arg = 0 \/ c.arg2 = 0)

\* A call of the engine's SetTempo with an argument that is refused.
RefusedTempoCall(c) == c.op = "SetTempo" /\ (c.start <= 0 \/ c.end <= 0)

\* C24: SetBPM and SetSampleRate with an argument that is not positive,
\* SetTimeSignature with a zero numerator or denominator, and the engine's
\* SetTempo with a tempo or sample rate that is not positive, change no
\* field: tempo, sample rate, signature, samples per beat and per bar and
\* the running counters are as before the call.
C24_RefusedSetterChangesNothing ==
  [][/\ RefusedClockCall(clkCall') => clk' = clk
     /\ RefusedTempoCall(qzCall') => (qz' = qz /\ eng' = eng)]_vars

\* A setter of the clock has been refused while the clock was away from its
\* defaults, in the middle of a beat and of a bar.
C24_Witness ==
  /\ RefusedClockCall(clkCall)
  /\ clk.sample_counter > 0 /\ clk.beat_counter > 0
  /\ clk.bpm # 120 /\ clk.time_sig_denominator # 4

\* C25: SetLoopRegion(start, end) with end < start is ignored: made in any
\* state of the engine, it leaves loop start, loop length and playhead as
\* they are.
C25_BackwardRegionIgnored ==
  \A start_sample \in Index, end_sample \in Index :
     end_sample < start_sample
       => LET r == SetLoopRegionOp(eng, start_sample, end_sample)
          IN  /\ r.loop_start = eng.loop_start
              /\ r.loop_length = eng.loop_length
              /\ r.play_head = eng.play_head

\* C26: after Init(), made at any time, the buffer is all zero, the loop is
\* empty, the recording and overdub flags are off, and record head,
\* playhead, undo cursors, undo depth and redo depth are all 0.
C26_InitResetsEverything ==
  engCall.op = "Init"
    => /\ \A i \in Index : eng.buffer[i] = 0
       /\ eng.is_empty
       /\ ~eng.is_recording /\ ~eng.overdubbing
       /\ eng.rec_head = 0 /\ eng.play_head = 0
       /\ eng.undo_write_index = 0 /\ eng.undo_read_index = 0
       /\ eng.undo_depth = 0 /\ eng.redo_depth = 0

\* The last call was a transition that the machine accepted.
AcceptedTransition ==
  \/ smCall.op = "TransitionTo" /\ CanTransition(smCall.from, smCall.arg)
  \/ smCall.op = "Reset"
  \/ smCall.op = "ProcessEvent" /\ smCall.ret

\* C27: an accepted transition invokes OnExit(old) while the current state
\* is still old, then sets previous to old and current to new, then invokes
\* OnEnter(new); it returns true, and afterwards the previous state is the
\* state held immediately before the call.
C27_TransitionOrder ==
  AcceptedTransition
    => /\ smCall.ret = TRUE
       /\ Len(smCall.calls) = 2
       /\ smCall.calls[1] = [cb |-> "OnExit", arg |-> smCall.from,
                             cur |-> smCall.from, prev |-> smCall.fromPrev]
       /\ smCall.calls[2] = [cb |-> "OnEnter", arg |-> current_state,
                             cur |-> current_state, prev |-> smCall.from]
       /\ previous_state = smCall.from
       /\ smCall.op = "TransitionTo" => current_state = smCall.arg
       /\ smCall.op = "Reset" => current_state = "IDLE"

\* TransitionTo(PAUSED) has been accepted in PLAYING, entered from
\* OVERDUBBING: the previous state has changed to PLAYING.
C27_Witness ==
  /\ smCall.op = "TransitionTo" /\ smCall.ret
  /\ smCall.from = "PLAYING" /\ smCall.fromPrev = "OVERDUBBING"
  /\ smCall.arg = "PAUSED"
  /\ current_state = "PAUSED" /\ previous_state = "PLAYING"

\* C28: the previous state never influences a transition decision: whatever
\* the previous state had been when the last call was made, ProcessEvent and
\* TransitionTo (and Reset) would have returned the same value and left the
\* same current state, and CanTransition the same answer.
C28_PreviousStateNotConsulted ==
  \A prev \in LooperState :
     /\ smCall.op = "ProcessEvent"
          => LET r == ProcessEventResult(smCall.from, prev, smCall.arg)
             IN  r.ret = smCall.ret /\ r.cur = current_state
     /\ smCall.op = "TransitionTo"
          => LET r == TransitionToResult(smCall.from, prev, smCall.arg)
             IN  r.ret = smCall.ret /\ r.cur = current_state
     /\ smCall.op = "Reset"
          => LET r == TransitionToResult(smCall.from, prev, "IDLE")
             IN  r.ret = smCall.ret /\ r.cur = current_state
     /\ smCall.op = "CanTransition"
          => /\ CanTransition(smCall.arg, smCall.arg2) = smCall.ret
             /\ current_state = smCall.from

\* The same decision has been taken in PLAYING with two different previous
\* states behind it; here PRESS_REC after a pause, where the previous state
\* is PAUSED and not the RECORDING_INITIAL of the first take.
C28_Witness ==
  /\ smCall.op = "ProcessEvent" /\ smCall.arg = "PRESS_REC" /\ smCall.ret
  /\ smCall.from = "PLAYING" /\ smCall.fromPrev = "PAUSED"
  /\ current_state = "OVERDUBBING"

\* The whole part of a playhead position: truncation towards zero.
WholePart(position) ==
  IF position < 0 THEN -((-position) \div PHScale) ELSE position \div PHScale

\* The last call was a Process made in overdub mode (not recording, loop not
\* empty), respectively made while neither recording nor overdubbing.
Overdubbed ==
  /\ engCall.op = "Process" /\ ~halted
  /\ before.overdubbing /\ ~before.is_recording /\ ~before.is_empty

PlayedBack ==
  /\ engCall.op = "Process" /\ ~halted
  /\ ~before.overdubbing /\ ~before.is_recording

\* C29: in overdub mode Process(in) writes exactly one buffer cell, the one
\* at (loop_start + trunc(playhead)) mod capacity with the playhead as it was
\* before the advance, leaves every other cell alone and returns the value it
\* wrote; when neither recording nor overdubbing it modifies no cell.
C29_OverdubWritesOneCell ==
  /\ Overdubbed
       => LET index == (before.loop_start + WholePart(before.play_head))
                       % BufLen
          IN  /\ engCall.widx = index
              /\ \A i \in Index \ {index} : eng.buffer[i] = before.buffer[i]
              /\ engCall.out = eng.buffer[index] * PHScale
  /\ PlayedBack
       => engCall.widx = -1 /\ eng.buffer = before.buffer

\* C30: StopRecording() leaves the whole buffer unchanged when the loop length
\* is below twice the crossfade window; otherwise it modifies only the first
\* CROSSFADE_SAMPLES samples of the loop region and no sample outside them.
C30_CrossfadeFrame ==
  engCall.op = "StopRecording"
    => /\ DOMAIN eng.buffer = DOMAIN before.buffer
       /\ before.loop_length < 2 * CROSSFADE_SAMPLES
            => eng.buffer = before.buffer
       /\ before.loop_length >= 2 * CROSSFADE_SAMPLES
            => \A i \in DOMAIN eng.buffer :
                  (i < before.loop_start
                   \/ i >= before.loop_start + CROSSFADE_SAMPLES)
                    => eng.buffer[i] = before.buffer[i]

\* StopRecording() has crossfaded a region of at least twice the window that
\* starts inside the buffer: samples of the window have changed, and there
\* are samples before the window and after the region.
C30_Witness ==
  /\ engCall.op = "StopRecording"
  /\ before.loop_length >= 2 * CROSSFADE_SAMPLES
  /\ before.loop_start > 0
  /\ before.loop_start + before.loop_length < Capacity(before.buffer)
  /\ \E i \in before.loop_start .. (before.loop_start + CROSSFADE_SAMPLES - 1) :
        eng.buffer[i] # before.buffer[i]

\* C31: in every reachable state of the clock, also right after a setter has
\* changed the configuration in the middle of a bar, the beat counter is in
\* [0, numerator) and, when samples_per_beat > 0, the sample counter is in
\* [0, samples_per_beat).
C31_CountersInRange ==
  /\ clk.beat_counter >= 0
  /\ clk.beat_counter < clk.time_sig_numerator
  /\ clk.samples_per_beat > 0
       => (clk.sample_counter >= 0 /\ clk.sample_counter < clk.samples_per_beat)

\* C32: no Undo() or Redo() copies a snapshot into the buffer while the
\* engine's recording flag or overdub flag is set: such a call returns false
\* and leaves the buffer alone.  (Undo and Redo leave the two flags as they
\* found them, so the flags after a successful call are the flags it ran
\* under.)
C32_NoHistoryCopyWhileWriting ==
  (engCall.op \in {"Undo", "Redo"} /\ engCall.ok)
    => (~eng.is_recording /\ ~eng.overdubbing)

\* The state of LooperStateMachine that a looper_state of the application
\* stands for.
MachineState(s) ==
  CASE s = "STOPPED"   -> "IDLE"
    [] s = "RECORDING" -> "RECORDING_INITIAL"
    [] s = "PLAYING"   -> "PLAYING"
    [] s = "OVERDUB"   -> "OVERDUBBING"
    [] s = "PAUSED"    -> "PAUSED"

\* C33: every change of looper_state made by a handler of loop() is a
\* transition that CanTransition allows between the corresponding machine
\* states, and the audio callback calls Process only when looper_state is
\* RECORDING, OVERDUB or PLAYING.
C33_ApplicationFollowsMachine ==
  /\ appCall.from # app.looper_state
       => CanTransition(MachineState(appCall.from),
                        MachineState(app.looper_state))
  /\ appCall.processed
       => (appCall.op = "AudioCallback"
           /\ appCall.from \in {"RECORDING", "OVERDUB", "PLAYING"})

\* A handler has changed looper_state to something other than STOPPED.
C33_Witness ==
  /\ appCall.op = "PlaySinglePress"
  /\ appCall.from = "PLAYING"
  /\ app.looper_state = "PAUSED"

\* C34: from the beginning of a pause, through every audio callback that
\* runs while looper_state is PAUSED, and up to the first sample played
\* after looper_state is PLAYING again, the engine's playhead and the sample
\* buffer are what they were when the pause began, as long as loop() neither
\* changes the region nor restarts.
C34_PausedKeepsPosition ==
  appObs.kept => /\ eng.play_head = appObs.held.play_head
                 /\ eng.buffer = appObs.held.buffer

\* Playback resumed after a pause that began inside the loop and during
\* which the audio callback ran.
C34_Witness ==
  /\ appCall.op = "PlaySinglePress"
  /\ appCall.from = "PAUSED"
  /\ app.looper_state = "PLAYING"
  /\ appObs.kept
  /\ appObs.sampled
  /\ appObs.held.play_head > 0
  /\ \E i \in Index : appObs.held.buffer[i] # 0

\* The snapshot slots SaveUndoState() has written so far.  Init leaves the
\* write index at 0 and every save writes the slot at the write index and
\* moves the index one further (circularly), so after n saves the slots
\* written are the first n ones.
SlotsWritten == {k \in 0 .. (eng.undo_count - 1) : k < lin.saves}

\* C35: a successful Undo() or Redo() copies from a slot that an earlier
\* SaveUndoState() has written.  (The slot copied is the one the read index
\* points to when the call returns.)
C35_RestoresOnlyWrittenSlots ==
  (engCall.op \in {"Undo", "Redo"} /\ engCall.ok)
    => eng.undo_read_index \in SlotsWritten

\* The buffer indices of the loop region of e.
RegionCells(e) ==
  {i \in Index : e.loop_start <= i /\ i < e.loop_start + e.loop_length}

\* C36: Undo() writes back the samples its snapshot captured to the cells
\* they were captured from, and changes no other cell, also when
\* SetLoopRegion has changed the region since the snapshot.  From any state
\* of the engine: StartOverdub() (which takes the snapshot), one overdubbed
\* sample, StopOverdub(), SetLoopRegion(s, e), Undo().
C36_UndoRestoresSavedRegion ==
  (~halted /\ Saves(eng) /\ MemcpyInBounds(eng) /\ ~eng.is_recording
   /\ ~eng.is_empty /\ eng.loop_length >= 1) =>
    \A in \in InSample, s \in Index, e \in Index :
      \A ub \in UBChoices(StartOverdubOp(eng)) :
        LET e1 == StartOverdubOp(eng)
            e2 == StopOverdubOp(ProcessOp(e1, in, ub).eng)
            e3 == SetLoopRegionOp(e2, s, e)
            u  == UndoOp(e3)
        IN  (s <= e /\ u.ret) =>
              \A i \in Index :
                 u.eng.buffer[i] = IF i \in RegionCells(eng)
                                   THEN eng.buffer[i] ELSE e3.buffer[i]

\* C37: whenever the audio callback runs, the engine's recording flag is set
\* only if looper_state is RECORDING and its overdub flag is set only if
\* looper_state is OVERDUB.
C37_FlagsAgreeWithState ==
  appCall.op = "AudioCallback" =>
    /\ appCall.rec => appCall.from = "RECORDING"
    /\ appCall.dub => appCall.from = "OVERDUB"

\* C38: in every interleaving of the audio callback with the REC press and
\* release handlers, when a recording stops before the buffer is full the
\* value the release handler stores in recorded_samples is the number of
\* samples the engine has written to the buffer since StartRecording().
C38_RecordedSamplesIsWritten ==
  (appObs.stored /\ ~appObs.full) => app.recorded_samples = appObs.written

\* C39: OnExit and OnEnter are invoked only when the current state changes
\* value: no call of ProcessEvent, TransitionTo or Reset invokes a callback
\* and leaves the current state equal to what it was.
C39_CallbacksOnlyOnChange ==
  (smCall.op \in {"ProcessEvent", "TransitionTo", "Reset"}
   /\ smCall.calls # <<>>)
    => current_state # smCall.from

====
